---------------------------- MODULE Spec2Model ----------------------------
(***************************************************************************)
(* Devlink: local HTTPS development gateway for *.localhost domains.       *)
(* A model of internal/server/server.go (routing table, request dispatch,  *)
(* path and cookie rewriting, live reload, startup and shutdown),          *)
(* internal/certs/manager.go (certificate authority and leaf certificate   *)
(* lifecycle) and the serve command of internal/cli/cli.go.                *)
(*                                                                         *)
(* Go strings are modelled as sequences of one-character strings, so that  *)
(* prefix tests, splitting, trimming and case folding are computed the way *)
(* the code computes them.  A nil pointer is the empty sequence <<>> and a *)
(* non-nil pointer to x is <<x>>.                                          *)
(***************************************************************************)
EXTENDS Integers, Sequences, FiniteSets, TLC

VARIABLES
    project,    \* routing: the config.Project a domain router is built from
    dr,         \* routing: the *domainRouter newDomainRouter(project) returned
    req,        \* routing: the last inbound request handed to dr.ServeHTTP
    resp,       \* routing: what ServeHTTP did with it
    inboundHost,  \* cookies: the Host of the client's request
    proxied,      \* cookies: the outbound request the proxy sent (resp.Request)
    setCookie,    \* cookies: the Set-Cookie values of the upstream's response
    sanitized,    \* cookies: the values after sanitizeResponseCookies
    resanitized,  \* cookies: the values after a second pass over sanitized
    files,      \* certs: the four PEM files of the state directory
    now,        \* certs: time.Now(), in days
    nextKey,    \* certs: the next key rsa.GenerateKey returns
    ticks,      \* certs: how many times the clock has been advanced
    certPc,     \* certs: where Manager.EnsureCertificate stands
    lastRun,    \* certs: how the last EnsureCertificate ended, until the
                \*        files next change: "none", "ok" or "error"
    configFile,   \* gateway: the content of the file at opts.ConfigPath
    events,       \* gateway: s.watcher.Events, the pending fsnotify events
    routers,      \* gateway: s.routers, the active routing table
    mu,           \* gateway: s.mu, [writer, readers]
    reloadPc,     \* gateway: where New / watchLoop / reload stands
    cfg,          \* gateway: reload's cfg.Projects
    pending,      \* gateway: the projects buildRouters has yet to visit
    building,     \* gateway: buildRouters' local map
    started,      \* gateway: New has returned and Run serves
    edits,        \* gateway: how many times the config file has been changed
    lookups,      \* gateway: per request goroutine, where lookupRouter stands
    tableBefore,  \* gateway (history): s.routers when the reload began
    lastBuilt,    \* gateway (history): the last table buildRouters completed
                  \*                    and reload installed
    inFlight,     \* gateway (history): how many calls of reload have not returned
    watching,     \* gateway: s.watcher.Add(opts.ConfigPath) succeeded
    arg,          \* functions: the argument a function is called with
    ret,          \* functions: what it returned, in a one-element tuple
    runPc,        \* lifecycle: where the serve command, New and Run stand
    ctxDone,      \* lifecycle: the context handed to Run has been cancelled
    listeners,    \* lifecycle: the state of httpServer and of httpsServer
    errCh         \* lifecycle: Run's errCh, the listeners whose error is queued

routingVars == <<project, dr, req, resp>>

cookieVars == <<inboundHost, proxied, setCookie, sanitized, resanitized>>

certVars == <<files, now, nextKey, ticks, certPc, lastRun>>

gatewayVars ==
    <<configFile, events, routers, mu, reloadPc, cfg, pending, building,
      started, edits, lookups, tableBefore, lastBuilt, inFlight, watching>>

pureVars == <<arg, ret>>

runVars == <<runPc, ctxDone, listeners, errCh>>

vars == <<routingVars, cookieVars, certVars, gatewayVars, pureVars, runVars>>

-----------------------------------------------------------------------------
(* Package strings, on sequences of characters.                            *)

LowerLetters ==
    <<"a","b","c","d","e","f","g","h","i","j","k","l","m",
      "n","o","p","q","r","s","t","u","v","w","x","y","z">>

UpperLetters ==
    <<"A","B","C","D","E","F","G","H","I","J","K","L","M",
      "N","O","P","Q","R","S","T","U","V","W","X","Y","Z">>

Digits == <<"0","1","2","3","4","5","6","7","8","9">>

\* The characters the model uses, in ascending byte order (Go compares strings
\* bytewise).
AsciiOrder ==
    <<" ", "*", "+", ",", "-", ".", "/">> \o Digits \o <<":", ";", "=">>
      \o UpperLetters \o <<"[", "]", "_">> \o LowerLetters

Range(s) == { s[i] : i \in 1..Len(s) }

Ord(c) == CHOOSE i \in 1..Len(AsciiOrder) : AsciiOrder[i] = c

\* a < b on Go strings
RECURSIVE StrLess(_, _)
StrLess(a, b) ==
    IF b = <<>> THEN FALSE
    ELSE IF a = <<>> THEN TRUE
    ELSE IF a[1] = b[1] THEN StrLess(Tail(a), Tail(b))
    ELSE Ord(a[1]) < Ord(b[1])

LowerChar(c) ==
    IF c \in Range(UpperLetters)
    THEN LowerLetters[CHOOSE i \in 1..26 : UpperLetters[i] = c]
    ELSE c

ToLower(s) == [i \in 1..Len(s) |-> LowerChar(s[i])]

EqualFold(a, b) == ToLower(a) = ToLower(b)

HasPrefix(s, p) == Len(p) <= Len(s) /\ SubSeq(s, 1, Len(p)) = p

HasSuffix(s, p) == Len(p) <= Len(s) /\ SubSeq(s, Len(s) - Len(p) + 1, Len(s)) = p

TrimPrefix(s, p) == IF HasPrefix(s, p) THEN SubSeq(s, Len(p) + 1, Len(s)) ELSE s

Contains(s, sub) ==
    \E i \in 0..(Len(s) - Len(sub)) : SubSeq(s, i + 1, i + Len(sub)) = sub

\* strings.Index for a one-character separator, 1-based; 0 where Go returns -1.
Index(s, c) ==
    IF c \in Range(s)
    THEN CHOOSE i \in 1..Len(s) : s[i] = c /\ \A j \in 1..(i - 1) : s[j] # c
    ELSE 0

\* strings.Split(s, c) for a one-character separator: a sequence of strings.
RECURSIVE Split(_, _)
Split(s, c) ==
    LET i == Index(s, c)
    IN  IF i = 0 THEN <<s>>
        ELSE <<SubSeq(s, 1, i - 1)>> \o Split(SubSeq(s, i + 1, Len(s)), c)

\* strings.SplitN(s, c, 2)
SplitN2(s, c) ==
    LET i == Index(s, c)
    IN  IF i = 0 THEN <<s>>
        ELSE <<SubSeq(s, 1, i - 1), SubSeq(s, i + 1, Len(s))>>

RECURSIVE TrimLeft(_)
TrimLeft(s) == IF s # <<>> /\ s[1] = " " THEN TrimLeft(Tail(s)) ELSE s

RECURSIVE TrimRight(_)
TrimRight(s) ==
    IF s # <<>> /\ s[Len(s)] = " " THEN TrimRight(SubSeq(s, 1, Len(s) - 1)) ELSE s

TrimSpace(s) == TrimRight(TrimLeft(s))

\* strings.Join(parts, sep)
RECURSIVE Join(_, _)
Join(parts, sep) ==
    IF parts = <<>> THEN <<>>
    ELSE IF Len(parts) = 1 THEN parts[1]
    ELSE parts[1] \o sep \o Join(Tail(parts), sep)

-----------------------------------------------------------------------------
(* String literals of the program.                                         *)

Slash == <<"/">>
DotLocalhost == <<".","l","o","c","a","l","h","o","s","t">>
Localhost == <<"l","o","c","a","l","h","o","s","t">>
TextHtml == <<"t","e","x","t","/","h","t","m","l">>
SchemeHttp == <<"h","t","t","p">>
SchemeHttps == <<"h","t","t","p","s">>
SchemeWs == <<"w","s">>
SchemeWss == <<"w","s","s">>

\* A header that is not set (Header.Get then yields "").
Absent == <<"(absent)">>

HeaderGet(h) == IF h = Absent THEN <<>> ELSE h

-----------------------------------------------------------------------------
(* hostOnly and registrableLocalhost.                                      *)

hostOnly(hostport) ==
    LET idx == Index(hostport, ":")
    IN  IF idx # 0 THEN SubSeq(hostport, 1, idx - 1) ELSE hostport

\* A reduction that keeps every label of a .localhost host.
RegistrableOfWholeHost(host, labels) ==
    IF ~HasSuffix(host, DotLocalhost) THEN <<>> ELSE host

\* registrableLocalhost from line 496 on: host is lower-cased, without port.
RegistrableOf(host, labels) ==
    IF ~HasSuffix(host, DotLocalhost) THEN <<>>
    ELSE IF Len(labels) < 2 THEN <<>>
    ELSE IF Len(labels) = 2 THEN host
    ELSE Join(SubSeq(labels, Len(labels) - 1, Len(labels)), <<".">>)

registrableLocalhost(h) ==
    RegistrableOf(ToLower(hostOnly(h)), Split(ToLower(hostOnly(h)), "."))

-----------------------------------------------------------------------------
(* net/url.Parse, for upstreams of the form scheme://authority.  The       *)
(* result is [ok, scheme, host]; a URL path, query or fragment on an       *)
(* upstream is outside the model (upstreams are scheme plus authority).    *)

IsLetter(c) == c \in Range(LowerLetters) \/ c \in Range(UpperLetters)

IsSchemeTail(c) == c \in Range(Digits) \/ c \in {"+", "-", "."}

\* url.getScheme: the index of the first character that ends the scan of the
\* scheme, 0 when the scan reaches the end of the string.
SchemeStop(raw) ==
    LET Stops(i) == ~IsLetter(raw[i]) /\ ~(i > 1 /\ IsSchemeTail(raw[i]))
    IN  IF \E i \in 1..Len(raw) : Stops(i)
        THEN CHOOSE i \in 1..Len(raw) : Stops(i) /\ \A j \in 1..(i - 1) : ~Stops(j)
        ELSE 0

\* The port of an authority must be empty or decimal digits (url.validOptionalPort).
ValidAuthority(a) ==
    LET i == Index(a, ":")
    IN  i = 0 \/ \A j \in (i + 1)..Len(a) : a[j] \in Range(Digits)

\* url.Parse, given stop, where the scan of the scheme ended.
ParseFrom(raw, stop) ==
    LET hasScheme == stop > 1 /\ raw[stop] = ":"
        scheme == IF hasScheme THEN ToLower(SubSeq(raw, 1, stop - 1)) ELSE <<>>
        rest == IF hasScheme THEN SubSeq(raw, stop + 1, Len(raw)) ELSE raw
        afterSlashes == SubSeq(rest, 3, Len(rest))
        cut == Index(afterSlashes, "/")
        authority == IF cut = 0 THEN afterSlashes ELSE SubSeq(afterSlashes, 1, cut - 1)
        firstSeg == IF Index(rest, "/") = 0 THEN rest
                    ELSE SubSeq(rest, 1, Index(rest, "/") - 1)
        bad == [ok |-> FALSE, scheme |-> <<>>, host |-> <<>>]
    IN  IF stop = 1 /\ raw[1] = ":" THEN bad                \* missing protocol scheme
        ELSE IF HasPrefix(rest, <<"/", "/">>) /\ ~HasPrefix(rest, <<"/", "/", "/">>)
        THEN IF ValidAuthority(authority)
             THEN [ok |-> TRUE, scheme |-> scheme, host |-> authority]
             ELSE bad                                       \* invalid port
        ELSE IF ~hasScheme /\ ~HasPrefix(rest, Slash) /\ Index(firstSeg, ":") # 0
        THEN bad                      \* first path segment cannot contain colon
        ELSE [ok |-> TRUE, scheme |-> scheme, host |-> <<>>]

urlParse(raw) == ParseFrom(raw, SchemeStop(raw))

-----------------------------------------------------------------------------
(* Routes and domain routers.                                              *)
(* A config.Route is [path, upstream, stripPathPrefix, spaFallback], where *)
(* stripPathPrefix is a *bool.  A runtimeRoute is [path, stripPrefix,      *)
(* spaFallback, upstream], upstream being the proxy's target [scheme,      *)
(* host].  A domainRouter is [routes, fallback], fallback a *runtimeRoute. *)

Ok(v) == [ok |-> TRUE, err |-> "", val |-> <<v>>]

Err(e) == [ok |-> FALSE, err |-> e, val |-> <<>>]

\* buildRuntimeRoute, given u, the result of url.Parse(r.Upstream).
RuntimeRouteFor(r, u) ==
    LET scheme == IF u.scheme = SchemeWs THEN SchemeHttp
                  ELSE IF u.scheme = SchemeWss THEN SchemeHttps
                  ELSE u.scheme
        strip == IF r.stripPathPrefix # <<>> THEN r.stripPathPrefix[1] ELSE TRUE
    IN  IF r.path = <<>> \/ ~HasPrefix(r.path, Slash) THEN Err("invalid path")
        ELSE IF ~u.ok THEN Err("invalid upstream")
        ELSE IF u.scheme \notin {SchemeHttp, SchemeHttps, SchemeWs, SchemeWss}
        THEN Err("unsupported scheme")
        ELSE Ok([path |-> r.path,
                 stripPrefix |-> strip,
                 spaFallback |-> r.spaFallback,
                 upstream |-> [scheme |-> scheme, host |-> u.host]])

buildRuntimeRoute(r) == RuntimeRouteFor(r, urlParse(r.upstream))

\* A comparison that puts shorter paths first.
RouteLessShorterFirst(a, b) ==
    IF Len(a.path) = Len(b.path) THEN StrLess(a.path, b.path)
    ELSE Len(a.path) < Len(b.path)

\* The comparison handed to sort.Slice: longer paths first, equal lengths in
\* ascending byte order.
RouteLess(a, b) ==
    IF Len(a.path) = Len(b.path) THEN StrLess(a.path, b.path)
    ELSE Len(a.path) > Len(b.path)

\* sort.Slice on fewer than 12 elements is an insertion sort: each element is
\* moved left while it is less than its left neighbour.
RECURSIVE InsertLeft(_, _)
InsertLeft(sorted, x) ==
    IF sorted # <<>> /\ RouteLess(x, sorted[Len(sorted)])
    THEN Append(InsertLeft(SubSeq(sorted, 1, Len(sorted) - 1), x), sorted[Len(sorted)])
    ELSE Append(sorted, x)

RECURSIVE SortRoutes(_)
SortRoutes(rs) ==
    IF rs = <<>> THEN <<>>
    ELSE InsertLeft(SortRoutes(SubSeq(rs, 1, Len(rs) - 1)), rs[Len(rs)])

\* The loop of newDomainRouter over project.Routes: acc is the router so far,
\* rs the routes still to add, b the result of buildRuntimeRoute(rs[1]).
RECURSIVE AddRoutes(_, _)
RECURSIVE AddRoute(_, _, _)
AddRoute(acc, rs, b) ==
    IF ~b.ok THEN Err(b.err)
    ELSE AddRoutes([routes |-> Append(acc.routes, b.val[1]),
                    fallback |-> IF rs[1].path = Slash /\ rs[1].spaFallback
                                 THEN b.val ELSE acc.fallback],
                   Tail(rs))

AddRoutes(acc, rs) ==
    IF rs = <<>> THEN Ok(acc) ELSE AddRoute(acc, rs, buildRuntimeRoute(rs[1]))

\* The end of newDomainRouter: the routes sorted.
SortedRouter(built) ==
    IF ~built.ok THEN built
    ELSE Ok([routes |-> SortRoutes(built.val[1].routes),
             fallback |-> built.val[1].fallback])

newDomainRouter(proj) ==
    IF Len(proj.routes) = 0 THEN Err("project has no routes")
    ELSE SortedRouter(AddRoutes([routes |-> <<>>, fallback |-> <<>>], proj.routes))

matches(rt, path) ==
    IF rt.path = Slash THEN TRUE
    ELSE IF ~HasPrefix(path, rt.path) THEN FALSE
    ELSE IF Len(path) = Len(rt.path) THEN TRUE
    ELSE IF rt.path[Len(rt.path)] = "/" THEN TRUE
    ELSE path[Len(rt.path) + 1] = "/"

\* domainRouter.match: the first route of the list that matches, or nil.
match(d, path) ==
    IF \E i \in 1..Len(d.routes) : matches(d.routes[i], path)
    THEN <<d.routes[CHOOSE i \in 1..Len(d.routes) :
                /\ matches(d.routes[i], path)
                /\ \A j \in 1..(i - 1) : ~matches(d.routes[j], path)]>>
    ELSE <<>>

acceptsHTML(r) ==
    LET accept == HeaderGet(r.accept)
    IN  Contains(accept, TextHtml) \/ accept = <<>>

\* rewritePath without the step that puts `/` back in front of the remainder.
rewritePathNoLeadingSlash(path, prefix, strip) ==
    IF strip /\ prefix # Slash /\ HasPrefix(path, prefix)
    THEN LET newPath == TrimPrefix(path, prefix)
         IN  IF newPath = <<>> THEN Slash ELSE newPath
    ELSE path

\* rewritePath: the path the upstream request carries.
rewritePath(path, prefix, strip) ==
    IF strip /\ prefix # Slash /\ HasPrefix(path, prefix)
    THEN LET trimmed == TrimPrefix(path, prefix)
             newPath == IF ~HasPrefix(trimmed, Slash) THEN Slash \o trimmed ELSE trimmed
         IN  IF newPath = <<>> THEN Slash ELSE newPath
    ELSE path

\* proxy.Director of buildRuntimeRoute on the outbound copy of request r.  The
\* library's director sets the URL's scheme and host to the target's and, the
\* target having no path, leaves the URL path as it is.
Director(rt, r) ==
    LET originalHost == IF HeaderGet(r.xOriginalHost) = <<>> THEN r.host
                        ELSE r.xOriginalHost
    IN  [scheme |-> rt.upstream.scheme,
         urlHost |-> rt.upstream.host,
         host |-> rt.upstream.host,
         path |-> rewritePath(r.path, rt.path, rt.stripPrefix),
         accept |-> r.accept,
         xForwardedProto |-> SchemeHttps,
         xForwardedHost |-> originalHost,
         xOriginalHost |-> r.xOriginalHost,
         xDevlinkOriginalPath |-> r.xDevlinkOriginalPath]

\* What a handler did: the upstream request it sent (nil when none was sent)
\* and the status and body it answered with itself (0 and "" when the answer
\* is the upstream's).
Forwarded(rt, out) == [out |-> <<out>>, via |-> <<rt>>, status |-> 0, body |-> ""]

HttpError(body, status) == [out |-> <<>>, via |-> <<>>, status |-> status, body |-> body]

StatusBadGateway == 502

StatusBadRequest == 400

\* runtimeRoute.serveHTTP
routeServeHTTP(rt, r, fallback) ==
    Forwarded(rt,
        Director(rt, [r EXCEPT !.path = IF fallback /\ rt.spaFallback THEN Slash ELSE r.path,
                               !.xOriginalHost = hostOnly(r.host)]))

\* domainRouter.ServeHTTP from line 271 on: route is what dr.match returned.
ServeMatched(d, r, route) ==
    IF route = <<>> /\ d.fallback # <<>> /\ acceptsHTML(r)
    THEN routeServeHTTP(d.fallback[1],
                        [r EXCEPT !.xDevlinkOriginalPath = r.path, !.path = Slash],
                        TRUE)
    ELSE IF route = <<>> THEN HttpError("no matching route", StatusBadGateway)
    ELSE routeServeHTTP(route[1], r, FALSE)

\* domainRouter.ServeHTTP
ServeHTTP(d, r) == ServeMatched(d, r, match(d, r.path))

\* An inbound request as the client sends it.
Request(host, path, accept) ==
    [host |-> host, path |-> path, accept |-> accept,
     xOriginalHost |-> Absent, xDevlinkOriginalPath |-> Absent]

-----------------------------------------------------------------------------
(* Cookie sanitizer.                                                       *)

AttrDomain == <<"d","o","m","a","i","n">>
DomainEq == <<"D","o","m","a","i","n","=">>
SemiSpace == <<";"," ">>

\* Whether segment seg of a Set-Cookie value is the one the first loop of
\* rewriteCookieHeader stops at: non-blank, of the form name=value with name
\* equal to "domain" under case folding.
IsDomainSegment(seg) ==
    LET trimmed == TrimSpace(seg)
        parts == SplitN2(trimmed, "=")
    IN  trimmed # <<>> /\ Len(parts) = 2 /\ EqualFold(parts[1], AttrDomain)

\* domainIdx of rewriteCookieHeader, 1-based; 0 where the code has -1.
DomainIdx(segments) ==
    IF \E i \in 1..Len(segments) : IsDomainSegment(segments[i])
    THEN CHOOSE i \in 1..Len(segments) :
            /\ IsDomainSegment(segments[i])
            /\ \A j \in 1..(i - 1) : ~IsDomainSegment(segments[j])
    ELSE 0

\* A rebuild that keeps the cookie's pair and the new Domain only.
RebuildPairAndDomain(segments, i, domainIdx, replacement) ==
    TrimSpace(segments[1]) \o SemiSpace \o replacement

\* The second loop of rewriteCookieHeader from segment i on: what it appends to
\* the builder.
RECURSIVE RebuildFrom(_, _, _, _)
RebuildFrom(segments, i, domainIdx, replacement) ==
    IF i > Len(segments) THEN <<>>
    ELSE LET trimmed == TrimSpace(segments[i])
             piece == IF trimmed = <<>> THEN <<>>
                      ELSE IF i = 1 THEN trimmed
                      ELSE IF i = domainIdx THEN SemiSpace \o replacement
                      ELSE SemiSpace \o trimmed
         IN  piece \o RebuildFrom(segments, i + 1, domainIdx, replacement)

\* rewriteCookieHeader from line 437 on: segments is strings.Split(raw, ";") and
\* domainIdx what the first loop found.
RewriteSegments(raw, registrable, segments, domainIdx) ==
    LET domainValue == TrimSpace(SplitN2(TrimSpace(segments[domainIdx]), "=")[2])
        normalized == TrimPrefix(ToLower(domainValue), <<".">>)
    IN  IF domainIdx = 0 THEN raw
        ELSE IF normalized # Localhost THEN raw
        ELSE RebuildFrom(segments, 1, domainIdx, DomainEq \o registrable)

rewriteCookieHeader(raw, registrable) ==
    IF registrable = <<>> THEN raw
    ELSE RewriteSegments(raw, registrable, Split(raw, ";"), DomainIdx(Split(raw, ";")))

\* sanitizeResponseCookies: the Set-Cookie values of a response whose Request is
\* request.
sanitizeResponseCookies(cookies, request) ==
    [i \in 1..Len(cookies) |->
        rewriteCookieHeader(cookies[i], registrableLocalhost(hostOnly(request.host)))]

-----------------------------------------------------------------------------
(* Certificate manager (internal/certs/manager.go).                        *)
(* A file is [kind, key, issuer, notAfter]: kind "missing" (no file),      *)
(* "garbage" (a file that cannot be read or decoded), "cert" (a            *)
(* certificate for public key `key`, signed with key `issuer`, expiring at *)
(* notAfter) or "key" (the private key `key`).  Keys are numbered in the   *)
(* order rsa.GenerateKey returns them.  Time is counted in days.  Writes   *)
(* and key generation do not fail.                                         *)

RenewBeforeDays == 30

LeafValidityDays == 1095

CAValidityDays == 3650

FileNames == {"caCert", "caKey", "serverCert", "serverKey"}

Missing == [kind |-> "missing", key |-> 0, issuer |-> 0, notAfter |-> 0]

Garbage == [kind |-> "garbage", key |-> 0, issuer |-> 0, notAfter |-> 0]

CertFile(key, issuer, notAfter) ==
    [kind |-> "cert", key |-> key, issuer |-> issuer, notAfter |-> notAfter]

KeyFile(key) == [kind |-> "key", key |-> key, issuer |-> 0, notAfter |-> 0]

\* os.Stat(path) returns no error.
Exists(f) == f.kind # "missing"

\* ensureCA with the clock at t and k the key rsa.GenerateKey would return:
\* the files it leaves.
ensureCA(fs, t, k) ==
    IF Exists(fs.caCert) /\ Exists(fs.caKey) THEN fs
    ELSE [fs EXCEPT !.caCert = CertFile(k, k, t + CAValidityDays),
                    !.caKey = KeyFile(k)]

\* loadCA returns no error: both files read, decode and parse.
loadCAOk(fs) == fs.caCert.kind = "cert" /\ fs.caKey.kind = "key"

\* tls.LoadX509KeyPair(serverCertPath, serverKeyPath) returns no error: both
\* files parse and the private key is the certificate's.
LoadX509KeyPairOk(fs) ==
    /\ fs.serverCert.kind = "cert"
    /\ fs.serverKey.kind = "key"
    /\ fs.serverCert.key = fs.serverKey.key

\* A test that keeps every leaf that loads, however close to its expiry.
KeepsLeafIgnoringExpiry(fs, t) == LoadX509KeyPairOk(fs)

\* The test of ensureServerCert that keeps the existing leaf (lines 116-123):
\* time.Now().Before(parsed.NotAfter.Add(-30*24*time.Hour)).
KeepsLeaf(fs, t) ==
    LoadX509KeyPairOk(fs) /\ t < fs.serverCert.notAfter - RenewBeforeDays

\* ensureServerCert with the clock at t and k the key rsa.GenerateKey would
\* return: [err, files].
ensureServerCert(fs, t, k) ==
    IF ~loadCAOk(fs) THEN [err |-> TRUE, files |-> fs]
    ELSE IF KeepsLeaf(fs, t) THEN [err |-> FALSE, files |-> fs]
    ELSE [err |-> FALSE,
          files |-> [fs EXCEPT !.serverCert = CertFile(k, fs.caKey.key, t + LeafValidityDays),
                               !.serverKey = KeyFile(k)]]

-----------------------------------------------------------------------------
(* Routing table and configuration (server.go: buildRouters, lookupRouter; *)
(* config.Load).  A table is a function from normalised host names to      *)
(* domain routers.  A config file is [kind, projects]: kind "missing" (no  *)
(* file), "malformed" (a file yaml.Unmarshal rejects) or "yaml".  The      *)
(* projects of a config are pointers: <<p>>, or <<>> for the nil that      *)
(* yaml.Unmarshal stores for a project written as null or left empty.      *)

NoProjects == [n \in {} |-> <<>>]

EmptyTable == [h \in {} |-> <<>>]

\* A map assignment that keeps the value a key already has.
PutKeepingFirst(table, k, v) ==
    [h \in DOMAIN table \cup {k} |-> IF h \in DOMAIN table THEN table[h] ELSE v]

\* routers[k] = v.
Put(table, k, v) ==
    [h \in DOMAIN table \cup {k} |-> IF h = k THEN v ELSE table[h]]

\* router, ok := routers[host]: the router in a one-element tuple, or nil.
Get(table, host) == IF host \in DOMAIN table THEN <<table[host]>> ELSE <<>>

\* config.Load.
Load(file) ==
    IF file.kind = "missing" THEN Ok(NoProjects)
    ELSE IF file.kind = "malformed" THEN Err("unmarshal config")
    ELSE Ok(file.projects)

\* The loop over project.Domains in buildRouters, from domain i on.
RECURSIVE AddDomains(_, _, _, _)
AddDomains(table, domains, i, router) ==
    IF i > Len(domains) THEN Ok(table)
    ELSE IF ~HasSuffix(ToLower(hostOnly(domains[i])), DotLocalhost)
    THEN Err("domain is not a .localhost domain")
    ELSE AddDomains(Put(table, ToLower(hostOnly(domains[i])), router),
                    domains, i + 1, router)

\* The rest of one iteration of buildRouters, given built, the result of
\* newDomainRouter(project).
AddProject(table, proj, built) ==
    IF ~built.ok THEN Err(built.err)
    ELSE AddDomains(table, proj.domains, 1, built.val[1])

\* The goroutine panics: project.Domains is read through a nil pointer.
Panic == Err("panic: runtime error: invalid memory address or nil pointer dereference")

\* One iteration of the loop over cfg.Projects in buildRouters, project being
\* the pointer the map holds.
buildRoutersStep(table, proj) ==
    IF proj = <<>> THEN Panic
    ELSE IF Len(proj[1].domains) = 0 THEN Err("project has no domains")
    ELSE AddProject(table, proj[1], newDomainRouter(proj[1]))

\* The loop of buildRouters from the i-th project of order on, given b, the
\* result of its iteration for the project before.
RECURSIVE BuildFrom(_, _, _, _)
BuildNext(cfgProjects, order, i, b) ==
    IF ~b.ok THEN b ELSE BuildFrom(b.val[1], cfgProjects, order, i)

BuildFrom(table, cfgProjects, order, i) ==
    IF i > Len(order) THEN Ok(table)
    ELSE BuildNext(cfgProjects, order, i + 1,
                   buildRoutersStep(table, cfgProjects[order[i]]))

\* buildRouters, the map iteration visiting the projects in the given order.
buildRouters(cfgProjects, order) == BuildFrom(EmptyTable, cfgProjects, order, 1)

\* handleHTTPS from line 180 on: router is what lookupRouter returned.
Dispatch(router, r) ==
    IF router = <<>> THEN HttpError("unknown domain", StatusBadGateway)
    ELSE ServeHTTP(router[1], r)

\* A handler that looks the Host header up as the client sent it.
handleHTTPSExactHost(table, r) ==
    IF r.host = <<>> THEN HttpError("missing host", StatusBadRequest)
    ELSE Dispatch(Get(table, r.host), r)

\* handleHTTPS with table the active routing table, no reload running.
handleHTTPS(table, r) ==
    IF ToLower(hostOnly(r.host)) = <<>> THEN HttpError("missing host", StatusBadRequest)
    ELSE Dispatch(Get(table, ToLower(hostOnly(r.host))), r)

-----------------------------------------------------------------------------
(* Inputs: route definitions, projects, requests.                          *)

PathApi == <<"/","a","p","i">>
PathApiSlash == <<"/","a","p","i","/">>
PathApiV2 == <<"/","a","p","i","/","v","2">>
PathApiHealth == <<"/","a","p","i","/","h","e","a","l","t","h">>
PathApix == <<"/","a","p","i","x">>
PathAbout == <<"/","a","b","o","u","t">>
PathDashboard == <<"/","d","a","s","h","b","o","a","r","d">>
PathNoSlash == <<"a","p","i">>

UpFront == <<"h","t","t","p",":","/","/","f","e",":","5","1","7","3">>
UpBack == <<"h","t","t","p",":","/","/","b","e",":","8","0","8","0">>
UpWs == <<"w","s",":","/","/","u",".","a",".","l","o","c","a","l","h","o","s","t">>
UpFtp == <<"f","t","p",":","/","/","b","e">>

HostFront == <<"f","e",":","5","1","7","3">>
HostBack == <<"b","e",":","8","0","8","0">>

AcceptJson == <<"a","p","p","l","i","c","a","t","i","o","n","/","j","s","o","n">>
AcceptBrowser ==
    <<"a","p","p","l","i","c","a","t","i","o","n","/","x","h","t","m","l",",",
      "t","e","x","t","/","h","t","m","l">>

HostFirst == <<"f","i","r","s","t",".","l","o","c","a","l","h","o","s","t">>
HostApiFirst ==
    <<"a","p","i",".","f","i","r","s","t",".","l","o","c","a","l","h","o","s","t">>
HostApiFirstPort ==
    <<"A","P","I",".","F","i","r","s","t",".","l","o","c","a","l","h","o","s","t",
      ":","8","4","4","3">>

Route(path, upstream, strip, spa) ==
    [path |-> path, upstream |-> upstream, stripPathPrefix |-> strip, spaFallback |-> spa]

\* The route definitions projects are made of; the last two are malformed.
RoutePool ==
    { Route(Slash, UpFront, <<>>, TRUE),
      Route(Slash, UpFront, <<>>, FALSE),
      Route(PathApi, UpBack, <<TRUE>>, FALSE),
      Route(PathApi, UpBack, <<FALSE>>, FALSE),
      Route(PathApiSlash, UpBack, <<>>, FALSE),
      Route(PathApiV2, UpWs, <<>>, FALSE),
      Route(PathNoSlash, UpBack, <<>>, FALSE),
      Route(PathApi, UpFtp, <<>>, FALSE) }

\* The longest route list of a project.
MaxRoutes == 2

RouteLists == UNION { [1..n -> RoutePool] : n \in 0..MaxRoutes }

RequestPaths ==
    { Slash, PathApi, PathApiSlash, PathApiHealth, PathApix, PathAbout, PathDashboard }

AcceptHeaders == { Absent, <<>>, TextHtml, AcceptBrowser, AcceptJson }

RequestHosts == { HostFirst, HostApiFirstPort }

-----------------------------------------------------------------------------
(* Specification SpecRouting: a domain router built from any project,      *)
(* serving any request.                                                    *)

RoutingIdle ==
    /\ project = [domains |-> <<>>, routes |-> <<>>]
    /\ dr = <<>>
    /\ req = <<>>
    /\ resp = <<>>

CookiesIdle ==
    /\ inboundHost = <<>>
    /\ proxied = <<>>
    /\ setCookie = <<>>
    /\ sanitized = <<>>
    /\ resanitized = <<>>

CertsIdle ==
    /\ files = [n \in FileNames |-> Missing]
    /\ now = 0
    /\ nextKey = 1
    /\ ticks = 0
    /\ certPc = "idle"
    /\ lastRun = "none"

GatewayIdle ==
    /\ configFile = [kind |-> "missing", projects |-> NoProjects]
    /\ events = <<>>
    /\ routers = EmptyTable
    /\ mu = [writer |-> FALSE, readers |-> {}]
    /\ reloadPc = "exited"
    /\ cfg = NoProjects
    /\ pending = {}
    /\ building = EmptyTable
    /\ started = FALSE
    /\ edits = 0
    /\ lookups = <<>>
    /\ tableBefore = EmptyTable
    /\ lastBuilt = EmptyTable
    /\ inFlight = 0
    /\ watching = FALSE

PureIdle ==
    /\ arg = <<>>
    /\ ret = <<>>

RunIdle ==
    /\ runPc = "none"
    /\ ctxDone = FALSE
    /\ listeners = [http |-> "off", https |-> "off"]
    /\ errCh = <<>>

InitRouting ==
    /\ RunIdle
    /\ project \in { [domains |-> <<HostFirst>>, routes |-> rs] : rs \in RouteLists }
    /\ dr = newDomainRouter(project).val
    /\ req = <<>>
    /\ resp = <<>>
    /\ CookiesIdle
    /\ CertsIdle
    /\ GatewayIdle
    /\ PureIdle

\* One request served by the router (domainRouter.ServeHTTP).
HandleRequest ==
    /\ dr # <<>>
    /\ \E host \in RequestHosts, path \in RequestPaths, accept \in AcceptHeaders :
          LET r == Request(host, path, accept)
          IN  /\ req' = <<r>>
              /\ resp' = <<ServeHTTP(dr[1], r)>>
    /\ UNCHANGED <<project, dr, cookieVars, certVars, gatewayVars, pureVars, runVars>>

NextRouting == HandleRequest

SpecRouting == InitRouting /\ [][NextRouting]_vars

-----------------------------------------------------------------------------
(* Routing claims.                                                         *)

\* The project of the claims: routes `/` (spaFallback) and `/api`, in either
\* order.
SpaAndApiProject ==
    /\ Len(project.routes) = 2
    /\ { project.routes[i].path : i \in 1..2 } = { Slash, PathApi }
    /\ \A i \in 1..2 : project.routes[i].path = Slash => project.routes[i].spaFallback

\* The request path is neither `/api` nor under `/api/`.
OutsideApi(path) == path # PathApi /\ ~HasPrefix(path, PathApiSlash)

\* The Accept header contains text/html or is empty.
WantsHtml(r) == r.accept = Absent \/ r.accept = <<>> \/ Contains(r.accept, TextHtml)

\* C3: on a router built from `/` (spaFallback) and `/api`, a request outside
\* `/api` that accepts HTML is served by the fallback route, with the path
\* rewritten to `/` and X-Devlink-Original-Path set to the requested path.
C3_SpaFallbackRewrites ==
    (resp # <<>> /\ SpaAndApiProject /\ OutsideApi(req[1].path) /\ WantsHtml(req[1]))
        => /\ resp[1].out # <<>>
           /\ resp[1].via = dr[1].fallback
           /\ resp[1].out[1].path = Slash
           /\ resp[1].out[1].xDevlinkOriginalPath = req[1].path

\* C4: on the same router, a request outside `/api` whose Accept header is
\* non-empty and has no text/html is not forwarded and is answered with
\* 502 "no matching route".
C4_NonHtmlIsNoMatchingRoute ==
    (resp # <<>> /\ SpaAndApiProject /\ OutsideApi(req[1].path) /\ ~WantsHtml(req[1]))
        => /\ resp[1].out = <<>>
           /\ resp[1].status = 502
           /\ resp[1].body = "no matching route"

\* The request path with the leading p removed: `/` when nothing remains, and
\* with `/` put in front when the remainder does not start with it.
PathWithout(path, p) ==
    LET rest == SubSeq(path, Len(p) + 1, Len(path))
    IN  IF rest = <<>> THEN Slash
        ELSE IF rest[1] = "/" THEN rest
        ELSE Slash \o rest

-----------------------------------------------------------------------------
(* Specification SpecCookies: a request proxied through any route, the     *)
(* upstream answering with any Set-Cookie values.                          *)

CookieS == <<"s","=","1">>
AttrPath == <<"P","a","t","h","=","/">>
Semi == <<";">>

RawCookies ==
    { CookieS,
      CookieS \o SemiSpace \o AttrPath,
      CookieS \o SemiSpace \o DomainEq \o Localhost \o SemiSpace \o AttrPath,
      CookieS \o Semi \o AttrDomain \o <<"=", ".">> \o <<"L","O","C","A","L","H","O","S","T">>
          \o Semi \o AttrPath,
      CookieS \o SemiSpace \o DomainEq \o <<"x",".","i","o">>,
      CookieS \o SemiSpace \o DomainEq \o HostFirst,
      CookieS \o SemiSpace \o SemiSpace \o DomainEq \o Localhost,
      CookieS \o SemiSpace \o DomainEq \o Localhost \o SemiSpace \o DomainEq \o Localhost,
      CookieS \o SemiSpace \o <<"D","o","m","a","i","n"," ","=">> \o Localhost,
      Semi \o DomainEq \o Localhost,
      AttrDomain \o <<"=">> \o Localhost \o Semi \o AttrPath,
      AttrDomain \o <<"=">> \o Localhost \o SemiSpace \o DomainEq \o Localhost }

\* The most Set-Cookie values of one response.
MaxCookies == 1

CookieLists == UNION { [1..n -> RawCookies] : n \in 1..MaxCookies }

InboundHosts == { HostFirst, HostApiFirst, HostApiFirstPort }

\* The runtime routes of the well-formed route definitions.
RuntimeRoutes == { buildRuntimeRoute(r).val[1] : r \in { x \in RoutePool : buildRuntimeRoute(x).ok } }

InitCookies ==
    /\ RunIdle
    /\ RoutingIdle
    /\ inboundHost \in InboundHosts
    /\ \E rt \in RuntimeRoutes :
          proxied = routeServeHTTP(rt, Request(inboundHost, PathApiHealth, Absent), FALSE).out
    /\ setCookie = <<>>
    /\ sanitized = <<>>
    /\ resanitized = <<>>
    /\ CertsIdle
    /\ GatewayIdle
    /\ PureIdle

\* proxy.ModifyResponse on the upstream's response.
ModifyResponse ==
    /\ \E cookies \in CookieLists :
          /\ setCookie' = cookies
          /\ sanitized' = sanitizeResponseCookies(cookies, proxied[1])
    /\ resanitized' = <<>>
    /\ UNCHANGED <<inboundHost, proxied, routingVars, certVars, gatewayVars, pureVars, runVars>>

\* The sanitizer applied once more to its own output.
SanitizeAgain ==
    /\ sanitized # <<>>
    /\ resanitized = <<>>
    /\ resanitized' = sanitizeResponseCookies(sanitized, proxied[1])
    /\ UNCHANGED <<inboundHost, proxied, setCookie, sanitized, routingVars, certVars, gatewayVars, pureVars, runVars>>

NextCookies == ModifyResponse \/ SanitizeAgain

SpecCookies == InitCookies /\ [][NextCookies]_vars

-----------------------------------------------------------------------------
(* Cookie claims.                                                          *)

\* The attributes of a Set-Cookie value: the segments after the first, which
\* is the cookie's name=value pair.
Attributes(raw) == Tail(Split(raw, ";"))

IsDomainAttribute(seg) ==
    LET t == TrimSpace(seg)
        i == Index(t, "=")
    IN  i # 0 /\ ToLower(SubSeq(t, 1, i - 1)) = AttrDomain

HasDomainAttribute(raw) ==
    \E i \in 1..Len(Attributes(raw)) : IsDomainAttribute(Attributes(raw)[i])

\* The value of the first Domain attribute.
DomainAttribute(raw) ==
    LET as == Attributes(raw)
        i == CHOOSE k \in 1..Len(as) :
                IsDomainAttribute(as[k]) /\ \A j \in 1..(k - 1) : ~IsDomainAttribute(as[j])
        t == TrimSpace(as[i])
    IN  TrimSpace(SubSeq(t, Index(t, "=") + 1, Len(t)))

\* The Domain value, lower-cased and without a leading dot, is `localhost`.
DomainIsLocalhost(raw) ==
    /\ HasDomainAttribute(raw)
    /\ LET v == ToLower(DomainAttribute(raw))
       IN  v = Localhost \/ v = <<".">> \o Localhost

\* The last two labels of a .localhost host, port stripped and lower-cased.
LastTwoLabels(h) ==
    LET labels == Split(ToLower(hostOnly(h)), ".")
    IN  labels[Len(labels) - 1] \o <<".">> \o labels[Len(labels)]

\* C5: every Set-Cookie of a proxied response whose Domain normalizes to
\* `localhost` has its Domain replaced by the registrable domain of the inbound
\* host, whatever upstream authority the request Host was rewritten to.
C5_DomainBecomesInboundRegistrable ==
    \A i \in 1..Len(sanitized) :
        DomainIsLocalhost(setCookie[i])
            => /\ HasDomainAttribute(sanitized[i])
               /\ DomainAttribute(sanitized[i]) = LastTwoLabels(inboundHost)

\* The host the sanitizer takes the registrable domain from.
SanitizerHost == hostOnly(proxied[1].host)

\* C6: the rewrite returns the value unchanged when the cookie has no Domain
\* attribute, or its Domain is not `localhost`, or the host is not a .localhost
\* host; and rewriting a rewritten value changes nothing.
C6_NoOpAndIdempotent ==
    /\ \A i \in 1..Len(sanitized) :
          (\/ ~HasDomainAttribute(setCookie[i])
           \/ ~DomainIsLocalhost(setCookie[i])
           \/ ~HasSuffix(ToLower(SanitizerHost), DotLocalhost))
              => sanitized[i] = setCookie[i]
    /\ resanitized # <<>> => resanitized = sanitized

-----------------------------------------------------------------------------
(* Specifications SpecCerts and SpecCertsDamaged: runs of                  *)
(* Manager.EnsureCertificate over a state directory whose files are        *)
(* removed from outside (SpecCerts), or removed and damaged                *)
(* (SpecCertsDamaged), while time passes.                                  *)

\* How many keys are generated at most.
MaxKeys == 4

\* How many times the clock is advanced at most.
MaxTicks == 3

\* The steps the clock advances by, in days.
TickSteps == {1, 20, 30, 1035}

InitCerts ==
    /\ RunIdle
    /\ RoutingIdle
    /\ CookiesIdle
    /\ CertsIdle
    /\ GatewayIdle
    /\ PureIdle

\* EnsureCertificate, line 47: m.ensureCA().
EnsureCAStep ==
    /\ certPc = "idle"
    /\ nextKey <= MaxKeys
    /\ files' = ensureCA(files, now, nextKey)
    /\ nextKey' = IF files' # files THEN nextKey + 1 ELSE nextKey
    /\ certPc' = "ensureServerCert"
    /\ lastRun' = "none"
    /\ UNCHANGED <<now, ticks, routingVars, cookieVars, gatewayVars, pureVars, runVars>>

\* EnsureCertificate, line 50: m.ensureServerCert().
EnsureServerCertStep ==
    /\ certPc = "ensureServerCert"
    /\ nextKey <= MaxKeys
    /\ files' = ensureServerCert(files, now, nextKey).files
    /\ nextKey' = IF files' # files THEN nextKey + 1 ELSE nextKey
    /\ IF ensureServerCert(files, now, nextKey).err
       THEN certPc' = "idle" /\ lastRun' = "error"
       ELSE certPc' = "loadKeyPair" /\ lastRun' = "none"
    /\ UNCHANGED <<now, ticks, routingVars, cookieVars, gatewayVars, pureVars, runVars>>

\* EnsureCertificate, lines 53-57: tls.LoadX509KeyPair and return.
LoadKeyPairStep ==
    /\ certPc = "loadKeyPair"
    /\ certPc' = "idle"
    /\ lastRun' = IF LoadX509KeyPairOk(files) THEN "ok" ELSE "error"
    /\ UNCHANGED <<files, now, nextKey, ticks, routingVars, cookieVars, gatewayVars, pureVars, runVars>>

\* A file of the state directory is removed from outside.
RemoveFile ==
    /\ certPc = "idle"
    /\ \E n \in FileNames :
          /\ Exists(files[n])
          /\ files' = [files EXCEPT ![n] = Missing]
    /\ lastRun' = "none"
    /\ UNCHANGED <<now, nextKey, ticks, certPc, routingVars, cookieVars, gatewayVars, pureVars, runVars>>

\* A file of the state directory is overwritten or truncated from outside.
DamageFile ==
    /\ certPc = "idle"
    /\ \E n \in FileNames :
          /\ files[n].kind \in {"cert", "key"}
          /\ files' = [files EXCEPT ![n] = Garbage]
    /\ lastRun' = "none"
    /\ UNCHANGED <<now, nextKey, ticks, certPc, routingVars, cookieVars, gatewayVars, pureVars, runVars>>

\* Time passes between two runs.
Tick ==
    /\ certPc = "idle"
    /\ ticks < MaxTicks
    /\ \E d \in TickSteps : now' = now + d
    /\ ticks' = ticks + 1
    /\ UNCHANGED <<files, nextKey, certPc, lastRun, routingVars, cookieVars, gatewayVars, pureVars, runVars>>

NextCerts ==
    EnsureCAStep \/ EnsureServerCertStep \/ LoadKeyPairStep \/ RemoveFile \/ Tick

SpecCerts == InitCerts /\ [][NextCerts]_vars

NextCertsDamaged == NextCerts \/ DamageFile

SpecCertsDamaged == InitCerts /\ [][NextCertsDamaged]_vars

-----------------------------------------------------------------------------
(* Certificate claims.                                                     *)

\* C8: after every successful EnsureCertificate, whatever runs and removals
\* of files came before, the persisted leaf is signed by the persisted CA.
C8_LeafSignedByCurrentCA ==
    lastRun = "ok"
        => /\ files.serverCert.kind = "cert"
           /\ files.caCert.kind = "cert"
           /\ files.serverCert.issuer = files.caCert.key

\* The step is the call of ensureServerCert.
IsEnsureServerCert == certPc = "ensureServerCert" /\ certPc' # certPc

\* The step wrote a new leaf certificate and key, signed with the CA key.
IssuesLeaf ==
    /\ files'.serverCert = CertFile(nextKey, files.caKey.key, now + LeafValidityDays)
    /\ files'.serverKey = KeyFile(nextKey)
    /\ files'.caCert = files.caCert
    /\ files'.caKey = files.caKey

\* The existing leaf pair fails to load or parse.
LeafUnusable ==
    \/ files.serverCert.kind # "cert"
    \/ files.serverKey.kind # "key"
    \/ files.serverCert.key # files.serverKey.key

\* C9 as claimed: ensureServerCert issues a new leaf exactly when the existing
\* pair fails to load or now > notAfter - 30 days, and otherwise leaves the
\* files unchanged.
C9_RenewsExactlyWhenPast30Days ==
    [][IsEnsureServerCert =>
          IF LeafUnusable \/ now > files.serverCert.notAfter - 30
          THEN IssuesLeaf
          ELSE files' = files]_vars

\* C9 as amended: when the CA does not load, ensureServerCert fails and
\* writes nothing; otherwise it issues a new leaf exactly when the existing
\* pair fails to load or now >= notAfter - 30 days, and otherwise leaves the
\* files unchanged.
C9_RenewsExactlyWhenWithin30Days ==
    [][IsEnsureServerCert =>
          IF files.caCert.kind # "cert" \/ files.caKey.kind # "key"
          THEN files' = files /\ lastRun' = "error"
          ELSE IF LeafUnusable \/ now >= files.serverCert.notAfter - 30
          THEN IssuesLeaf /\ lastRun' # "error"
          ELSE files' = files /\ lastRun' # "error"]_vars

\* On the day a leaf issued at day 0 has exactly 30 days left,
\* ensureServerCert has just written a new leaf.
C9_Witness ==
    /\ certPc = "loadKeyPair"
    /\ files.serverCert.kind = "cert"
    /\ files.serverCert.notAfter = now + LeafValidityDays
    /\ now = LeafValidityDays - 30
    /\ files.serverCert.key > 2

\* The step is the call of ensureCA.
IsEnsureCA == certPc = "idle" /\ certPc' = "ensureServerCert"

\* Both CA files exist and can be read and parsed.
CAUsable == files.caCert.kind = "cert" /\ files.caKey.kind = "key"

\* C10: ensureCA is a no-op only when both CA files exist and are readable;
\* otherwise (key missing, unreadable or unparsable) it writes a fresh
\* certificate and key.
C10_RegeneratesUnusableCA ==
    [][IsEnsureCA =>
          IF CAUsable
          THEN files' = files
          ELSE /\ files'.caCert = CertFile(nextKey, nextKey, now + CAValidityDays)
               /\ files'.caKey = KeyFile(nextKey)]_vars

-----------------------------------------------------------------------------
(* Specification SpecGateway: New's first reload, then watchLoop reloading *)
(* on the events of a config file that is edited from outside, while       *)
(* request goroutines call lookupRouter.  The events are those of any      *)
(* platform: a write, a creation and a removal are each reported.          *)

DomainA == <<"a",".","l","o","c","a","l","h","o","s","t">>
DomainB == <<"B",".","l","o","c","a","l","h","o","s","t",":","8","4","4","3">>
DomainC == <<"c",".","l","o","c","a","l","h","o","s","t">>
DomainForeign == <<"d",".","t","e","s","t">>

HostA == <<"a",".","l","o","c","a","l","h","o","s","t">>
HostB == <<"b",".","l","o","c","a","l","h","o","s","t">>

Project(domains, routes) == [domains |-> domains, routes |-> routes]

ProjWeb == Project(<<DomainA>>, <<Route(Slash, UpFront, <<>>, TRUE)>>)
ProjWebMoved == Project(<<DomainA>>, <<Route(Slash, UpBack, <<>>, FALSE)>>)
ProjApi == Project(<<DomainB>>, <<Route(PathApi, UpBack, <<>>, FALSE)>>)
ProjNoRoutes == Project(<<DomainC>>, <<>>)
ProjNoDomains == Project(<<>>, <<Route(Slash, UpFront, <<>>, FALSE)>>)
ProjForeign == Project(<<DomainC, DomainForeign>>, <<Route(Slash, UpFront, <<>>, FALSE)>>)

FileMissing == [kind |-> "missing", projects |-> NoProjects]

FileMalformed == [kind |-> "malformed", projects |-> NoProjects]

Yaml(projects) == [kind |-> "yaml", projects |-> projects]

\* The contents the config file takes.
ConfigFiles ==
    { FileMissing,
      FileMalformed,
      Yaml("web" :> <<ProjWeb>> @@ "api" :> <<ProjApi>>),
      Yaml("web" :> <<ProjWebMoved>> @@ "api" :> <<ProjApi>>),
      Yaml("web" :> <<ProjWebMoved>> @@ "bad" :> <<ProjNoRoutes>>),
      Yaml("api" :> <<ProjApi>> @@ "bad" :> <<ProjForeign>>),
      Yaml("bad" :> <<ProjNoDomains>>),
      Yaml("web" :> <<ProjWeb>> @@ "bad" :> <<>>) }

\* The request goroutines.
Lookups == {1, 2}

\* The hosts requests ask for, as handleHTTPS normalises them.
LookupHosts == {HostA, HostB}

\* How many times the config file is changed at most.
MaxEdits == 2

IdleLookup == [pc |-> "idle", host |-> <<>>, result |-> <<>>, seen |-> {}]

InitGateway ==
    /\ RunIdle
    /\ RoutingIdle
    /\ CookiesIdle
    /\ CertsIdle
    /\ PureIdle
    /\ configFile \in ConfigFiles
    /\ events = <<>>
    /\ routers = EmptyTable
    /\ mu = [writer |-> FALSE, readers |-> {}]
    /\ reloadPc = "load"
    /\ cfg = NoProjects
    /\ pending = {}
    /\ building = EmptyTable
    /\ started = FALSE
    /\ edits = 0
    /\ lookups = [p \in Lookups |-> IdleLookup]
    /\ tableBefore = EmptyTable
    /\ lastBuilt = EmptyTable
    /\ inFlight = 1
    /\ watching = TRUE

\* Where a failing reload goes: back to watchLoop, which logs the error, or,
\* in New, out of the process.
AfterError == IF started THEN "failed" ELSE "exited"

\* A reload that empties s.routers before it builds the new table.
ReloadLoadClearing ==
    /\ reloadPc = "load"
    /\ tableBefore' = routers
    /\ routers' = EmptyTable
    /\ IF Load(configFile).ok
       THEN /\ cfg' = Load(configFile).val[1]
            /\ pending' = DOMAIN Load(configFile).val[1]
            /\ reloadPc' = "build"
            /\ UNCHANGED inFlight
       ELSE /\ reloadPc' = AfterError
            /\ inFlight' = inFlight - 1
            /\ UNCHANGED <<cfg, pending>>
    /\ building' = EmptyTable
    /\ UNCHANGED <<configFile, events, mu, started, edits, lookups, lastBuilt,
                   watching>>
    /\ UNCHANGED <<routingVars, cookieVars, certVars, pureVars, runVars>>

\* reload, lines 199-202, and the first line of buildRouters.
ReloadLoad ==
    /\ reloadPc = "load"
    /\ tableBefore' = routers
    /\ IF Load(configFile).ok
       THEN /\ cfg' = Load(configFile).val[1]
            /\ pending' = DOMAIN Load(configFile).val[1]
            /\ reloadPc' = "build"
            /\ UNCHANGED inFlight
       ELSE /\ reloadPc' = AfterError
            /\ inFlight' = inFlight - 1
            /\ UNCHANGED <<cfg, pending>>
    /\ building' = EmptyTable
    /\ UNCHANGED <<configFile, events, routers, mu, started, edits, lookups,
                   lastBuilt, watching>>
    /\ UNCHANGED <<routingVars, cookieVars, certVars, pureVars, runVars>>

\* What one iteration of buildRouters does with b, the result of
\* buildRoutersStep for the project called name.
BuildResult(name, b) ==
    IF b.ok
    THEN /\ building' = b.val[1]
         /\ pending' = pending \ {name}
         /\ reloadPc' = "build"
         /\ UNCHANGED inFlight
    ELSE /\ reloadPc' = IF b = Panic THEN "crashed" ELSE AfterError
         /\ inFlight' = IF b = Panic THEN inFlight ELSE inFlight - 1
         /\ UNCHANGED <<building, pending>>

\* An iteration of buildRouters that fills s.routers itself.
ReloadBuildProjectInPlace ==
    /\ reloadPc = "build"
    /\ \E name \in pending : BuildResult(name, buildRoutersStep(building, cfg[name]))
    /\ routers' = building'
    /\ UNCHANGED <<configFile, events, mu, cfg, started, edits, lookups,
                   tableBefore, lastBuilt, watching>>
    /\ UNCHANGED <<routingVars, cookieVars, certVars, pureVars, runVars>>

\* One iteration of the loop of buildRouters; the map iteration visits the
\* projects in any order.
ReloadBuildProject ==
    /\ reloadPc = "build"
    /\ \E name \in pending : BuildResult(name, buildRoutersStep(building, cfg[name]))
    /\ UNCHANGED <<configFile, events, routers, mu, cfg, started, edits, lookups,
                   tableBefore, lastBuilt, watching>>
    /\ UNCHANGED <<routingVars, cookieVars, certVars, pureVars, runVars>>

\* buildRouters returns the map; reload, line 207: s.mu.Lock().
ReloadLock ==
    /\ reloadPc = "build"
    /\ pending = {}
    /\ ~mu.writer
    /\ mu.readers = {}
    /\ mu' = [mu EXCEPT !.writer = TRUE]
    /\ reloadPc' = "store"
    /\ UNCHANGED <<configFile, events, routers, cfg, pending, building, started,
                   edits, lookups, tableBefore, lastBuilt, inFlight, watching>>
    /\ UNCHANGED <<routingVars, cookieVars, certVars, pureVars, runVars>>

\* A lookup in flight has been concurrent with the table t.
Sees(l, t) ==
    IF l.pc \in {"called", "rlocked"} THEN [l EXCEPT !.seen = @ \cup {t}] ELSE l

\* reload, lines 208-211: s.routers = routers; s.mu.Unlock(); return nil.
ReloadStore ==
    /\ reloadPc = "store"
    /\ routers' = building
    /\ lastBuilt' = building
    /\ mu' = [mu EXCEPT !.writer = FALSE]
    /\ lookups' = [p \in Lookups |-> Sees(lookups[p], building)]
    /\ reloadPc' = "idle"
    /\ started' = TRUE
    /\ cfg' = NoProjects
    /\ building' = EmptyTable
    /\ tableBefore' = EmptyTable
    /\ inFlight' = inFlight - 1
    /\ UNCHANGED <<configFile, events, pending, edits, watching>>
    /\ UNCHANGED <<routingVars, cookieVars, certVars, pureVars, runVars>>

\* watchLoop, lines 155-157: the error of reload is logged.
ReloadError ==
    /\ reloadPc = "failed"
    /\ reloadPc' = "idle"
    /\ cfg' = NoProjects
    /\ pending' = {}
    /\ building' = EmptyTable
    /\ tableBefore' = EmptyTable
    /\ UNCHANGED <<configFile, events, routers, mu, started, edits, lookups,
                   lastBuilt, inFlight, watching>>
    /\ UNCHANGED <<routingVars, cookieVars, certVars, pureVars, runVars>>

\* A watch loop that reloads on write events only.
WatchEventWriteOnly ==
    /\ reloadPc = "idle"
    /\ events # <<>>
    /\ events' = Tail(events)
    /\ reloadPc' = IF Head(events) = "Write" THEN "load" ELSE "idle"
    /\ inFlight' = IF Head(events) = "Write" THEN inFlight + 1 ELSE inFlight
    /\ UNCHANGED <<configFile, routers, mu, cfg, pending, building, started,
                   edits, lookups, tableBefore, lastBuilt, watching>>
    /\ UNCHANGED <<routingVars, cookieVars, certVars, pureVars, runVars>>

\* A watch loop that starts a reload for an event while the reload before
\* has not returned.
WatchEventOverlapping ==
    /\ reloadPc \in {"idle", "build", "failed"}
    /\ events # <<>>
    /\ events' = Tail(events)
    /\ reloadPc' = IF Head(events) \in {"Write", "Create"} THEN "load" ELSE reloadPc
    /\ inFlight' = IF Head(events) \in {"Write", "Create"}
                   THEN inFlight + 1 ELSE inFlight
    /\ UNCHANGED <<configFile, routers, mu, cfg, pending, building, started,
                   edits, lookups, tableBefore, lastBuilt, watching>>
    /\ UNCHANGED <<routingVars, cookieVars, certVars, pureVars, runVars>>

\* watchLoop, lines 150-155: an event is received.
WatchEvent ==
    /\ reloadPc = "idle"
    /\ events # <<>>
    /\ events' = Tail(events)
    /\ reloadPc' = IF Head(events) \in {"Write", "Create"} THEN "load" ELSE "idle"
    /\ inFlight' = IF Head(events) \in {"Write", "Create"}
                   THEN inFlight + 1 ELSE inFlight
    /\ UNCHANGED <<configFile, routers, mu, cfg, pending, building, started,
                   edits, lookups, tableBefore, lastBuilt, watching>>
    /\ UNCHANGED <<routingVars, cookieVars, certVars, pureVars, runVars>>

\* The event fsnotify reports when the file old becomes the file new.
EventOf(old, new) ==
    IF new.kind = "missing" THEN "Remove"
    ELSE IF old.kind = "missing" THEN "Create"
    ELSE "Write"

\* The config file is written, created or removed from outside.
EditConfig ==
    /\ started
    /\ reloadPc # "crashed"
    /\ edits < MaxEdits
    /\ \E c \in ConfigFiles \ {configFile} :
          /\ configFile' = c
          /\ events' = IF watching /\ reloadPc # "stopped"
                        THEN Append(events, EventOf(configFile, c))
                        ELSE events
    /\ edits' = edits + 1
    /\ UNCHANGED <<routers, mu, reloadPc, cfg, pending, building, started,
                   lookups, tableBefore, lastBuilt, inFlight, watching>>
    /\ UNCHANGED <<routingVars, cookieVars, certVars, pureVars, runVars>>

\* handleHTTPS, line 180: lookupRouter(host) is called, host one of hosts.
LookupCallOn(p, hosts) ==
    /\ started
    /\ reloadPc # "crashed"
    /\ lookups[p].pc \in {"idle", "returned"}
    /\ \E host \in hosts :
          lookups' = [lookups EXCEPT ![p] =
                         [pc |-> "called", host |-> host, result |-> <<>>,
                          seen |-> {lastBuilt}]]
    /\ UNCHANGED <<configFile, events, routers, mu, reloadPc, cfg, pending,
                   building, started, edits, tableBefore, lastBuilt, inFlight,
                   watching>>
    /\ UNCHANGED <<routingVars, cookieVars, certVars, pureVars, runVars>>

\* handleHTTPS, line 180: lookupRouter(host) is called.
LookupCall(p) == LookupCallOn(p, LookupHosts)

\* lookupRouter, line 190: s.mu.RLock().
LookupRLock(p) ==
    /\ lookups[p].pc = "called"
    /\ reloadPc # "crashed"
    /\ ~mu.writer
    /\ mu' = [mu EXCEPT !.readers = @ \cup {p}]
    /\ lookups' = [lookups EXCEPT ![p].pc = "rlocked"]
    /\ UNCHANGED <<configFile, events, routers, reloadPc, cfg, pending,
                   building, started, edits, tableBefore, lastBuilt, inFlight,
                   watching>>
    /\ UNCHANGED <<routingVars, cookieVars, certVars, pureVars, runVars>>

\* lookupRouter, lines 191-195: the map is read, the lock released.
LookupRead(p) ==
    /\ lookups[p].pc = "rlocked"
    /\ reloadPc # "crashed"
    /\ lookups' = [lookups EXCEPT ![p].pc = "returned",
                                  ![p].result = Get(routers, lookups[p].host)]
    /\ mu' = [mu EXCEPT !.readers = @ \ {p}]
    /\ UNCHANGED <<configFile, events, routers, reloadPc, cfg, pending,
                   building, started, edits, tableBefore, lastBuilt, inFlight,
                   watching>>
    /\ UNCHANGED <<routingVars, cookieVars, certVars, pureVars, runVars>>

NextGateway ==
    \/ ReloadLoad
    \/ ReloadBuildProject
    \/ ReloadLock
    \/ ReloadStore
    \/ ReloadError
    \/ WatchEvent
    \/ EditConfig
    \/ \E p \in Lookups : LookupCall(p) \/ LookupRLock(p) \/ LookupRead(p)

SpecGateway == InitGateway /\ [][NextGateway]_vars

-----------------------------------------------------------------------------
(* Gateway claims.                                                         *)

\* C1: whenever a reload fails (config load error or build error), the
\* active routing table is exactly the table that was active before the
\* reload.
C1_FailedReloadKeepsTable ==
    reloadPc \in {"failed", "exited"} => routers = tableBefore

\* A reload has failed after part of the new table was built, with a
\* non-empty table active.
C1_Witness ==
    /\ reloadPc = "failed"
    /\ building # EmptyTable
    /\ routers # EmptyTable
    /\ routers = tableBefore

\* C2: under any interleaving of lookups with reloads, every lookup returns
\* what one fully built table holds for its host: a table that was active at
\* some time between the call and the return.
C2_LookupFromOneBuiltTable ==
    \A p \in Lookups :
        lookups[p].pc = "returned"
            => \E t \in lookups[p].seen : lookups[p].result = Get(t, lookups[p].host)

\* A lookup has returned a router after a reload installed, between its call
\* and its return, a table that answers its host differently.
C2_Witness ==
    \E p \in Lookups :
        /\ lookups[p].pc = "returned"
        /\ lookups[p].result # <<>>
        /\ \E t \in lookups[p].seen : Get(t, lookups[p].host) # lookups[p].result

-----------------------------------------------------------------------------
(* Specification SpecRegistrable: registrableLocalhost applied to hosts    *)
(* of up to MaxLabels labels, with and without a port.                     *)

LabelA == <<"a">>
LabelB == <<"B">>
LabelTest == <<"t","e","s","t">>
Port8443 == <<":","8","4","4","3">>
Loopback == <<"1","2","7",".","0",".","0",".","1">>

\* The labels hosts are made of.
HostLabels == {LabelA, LabelB, Localhost, LabelTest}

\* How many labels a host has at most.
MaxLabels == 3

\* The hosts registrableLocalhost is called with.
RegistrableHosts ==
    { Join(ls, <<".">>) \o port :
        ls \in UNION { [1..n -> HostLabels] : n \in 1..MaxLabels } \cup {<<Loopback>>},
        port \in {<<>>, Port8443} }

InitRegistrable ==
    /\ RunIdle
    /\ RoutingIdle
    /\ CookiesIdle
    /\ CertsIdle
    /\ GatewayIdle
    /\ arg \in RegistrableHosts
    /\ ret = <<>>

\* registrable := registrableLocalhost(host).
CallRegistrable ==
    /\ ret = <<>>
    /\ ret' = <<registrableLocalhost(arg)>>
    /\ UNCHANGED <<arg, routingVars, cookieVars, certVars, gatewayVars, runVars>>

NextRegistrable == CallRegistrable

SpecRegistrable == InitRegistrable /\ [][NextRegistrable]_vars

-----------------------------------------------------------------------------
(* Claims about registrableLocalhost.                                      *)

\* The last two dot-separated labels of h, joined by a dot.
LastTwoOf(h) ==
    Join(SubSeq(Split(h, "."), Len(Split(h, ".")) - 1, Len(Split(h, "."))), <<".">>)

\* What C17 states for the host h.
RegistrableAsClaimed(h) ==
    IF ~HasSuffix(h, DotLocalhost) THEN <<>>
    ELSE IF Len(Split(h, ".")) >= 3 THEN LastTwoOf(h)
    ELSE h

\* C17 as claimed: for h ending in .localhost the result is the last two
\* labels of h (h itself when it has two labels); for every other h it is
\* empty.
C17_RegistrableOfHost ==
    ret # <<>> => ret[1] = RegistrableAsClaimed(arg)

\* C17 as amended: the same, of h with its port stripped and lower-cased.
C17_RegistrableOfNormalizedHost ==
    ret # <<>> => ret[1] = RegistrableAsClaimed(ToLower(hostOnly(arg)))

\* A host of three labels with an upper-case letter and a port has been
\* reduced to its last two labels, lower-cased.
C17_Witness ==
    /\ arg = Join(<<LabelA, LabelB, Localhost>>, <<".">>) \o Port8443
    /\ ret = <<Join(<<<<"b">>, Localhost>>, <<".">>)>>

-----------------------------------------------------------------------------
(* Claims about what a rewrite preserves.                                  *)

\* The i-th Set-Cookie value was changed by the sanitizer.
Rewritten(i) == sanitized[i] # setCookie[i]

\* The white space in front of s, and behind it.
LeadingSpace(s) == SubSeq(s, 1, Len(s) - Len(TrimLeft(s)))
TrailingSpace(s) == SubSeq(s, Len(TrimRight(s)) + 1, Len(s))

\* Segment seg of the form name=value with the text of the value replaced by v.
WithValue(seg, v) ==
    SubSeq(seg, 1, Index(seg, "="))
        \o LeadingSpace(SubSeq(seg, Index(seg, "=") + 1, Len(seg)))
        \o v
        \o TrailingSpace(SubSeq(seg, Index(seg, "=") + 1, Len(seg)))

\* The position of the first Domain attribute among the segments segs.
FirstDomainAttribute(segs) ==
    CHOOSE k \in 2..Len(segs) :
        IsDomainAttribute(segs[k]) /\ \A j \in 2..(k - 1) : ~IsDomainAttribute(segs[j])

\* raw with the text of the value of its first Domain attribute replaced by v.
WithDomainValue(raw, v) ==
    LET segs == Split(raw, ";")
        k == FirstDomainAttribute(segs)
    IN  Join([i \in 1..Len(segs) |-> IF i = k THEN WithValue(segs[i], v) ELSE segs[i]],
             Semi)

Stripped(segs) == [i \in 1..Len(segs) |-> TrimSpace(segs[i])]
NonBlank(seg) == seg # <<>>
Kept(raw) == SelectSeq(Stripped(Split(raw, ";")), NonBlank)

-----------------------------------------------------------------------------
(* Specification SpecMatch: newDomainRouter on route lists of up to        *)
(* MaxRouteList well-formed routes, in any order and with repetitions,     *)
(* then domainRouter.match on a request path.                              *)

\* The route definitions of the lists.
MatchRoutePool ==
    { Route(Slash, UpFront, <<>>, FALSE),
      Route(PathApi, UpBack, <<>>, FALSE),
      Route(PathApiSlash, UpBack, <<>>, FALSE),
      Route(PathApix, UpFront, <<>>, FALSE),
      Route(PathApiV2, UpBack, <<>>, FALSE) }

\* The longest route list.
MaxRouteList == 3

MatchRouteLists == UNION { [1..n -> MatchRoutePool] : n \in 1..MaxRouteList }

InitMatch ==
    /\ RunIdle
    /\ RoutingIdle
    /\ CookiesIdle
    /\ CertsIdle
    /\ GatewayIdle
    /\ arg \in MatchRouteLists
    /\ ret = <<>>

\* The router built and what its match returns for path.
Matched(built, path) ==
    [dr |-> built.val[1], path |-> path, route |-> match(built.val[1], path)]

\* newDomainRouter(project), then dr.match(r.URL.Path).
BuildAndMatch ==
    /\ ret = <<>>
    /\ \E path \in RequestPaths :
          ret' = <<Matched(newDomainRouter([domains |-> <<HostFirst>>, routes |-> arg]), path)>>
    /\ UNCHANGED <<arg, routingVars, cookieVars, certVars, gatewayVars, runVars>>

NextMatch == BuildAndMatch

SpecMatch == InitMatch /\ [][NextMatch]_vars

-----------------------------------------------------------------------------
(* Claims about route order and matching.                                  *)

\* Route paths a and b are in the order of the claim: a longer, or of equal
\* length and not after b in byte order.
InOrder(a, b) ==
    \/ Len(a) > Len(b)
    \/ Len(a) = Len(b) /\ ~StrLess(b, a)

\* The route path p structurally matches the request path.
Structural(p, path) ==
    \/ path = p
    \/ /\ Len(path) > Len(p)
       /\ SubSeq(path, 1, Len(p) + 1) = p \o Slash
    \/ /\ p # <<>>
       /\ p[Len(p)] = "/"
       /\ Len(path) >= Len(p)
       /\ SubSeq(path, 1, Len(p)) = p
    \/ p = Slash

\* C19: the installed route list is in descending path length, ties in
\* ascending byte order, and match returns a longest route that structurally
\* matches the path, and nil only if no route does.
C19_SortedAndLongestMatch ==
    ret # <<>> =>
        LET routes == ret[1].dr.routes
            path == ret[1].path
            found == ret[1].route
        IN  /\ Len(routes) = Len(arg)
            /\ \A i \in 1..Len(routes), j \in 1..Len(routes) :
                  i < j => InOrder(routes[i].path, routes[j].path)
            /\ found = <<>> <=> \A i \in 1..Len(routes) : ~Structural(routes[i].path, path)
            /\ found # <<>> =>
                  /\ \E i \in 1..Len(routes) : routes[i] = found[1]
                  /\ Structural(found[1].path, path)
                  /\ \A i \in 1..Len(routes) :
                        Structural(routes[i].path, path)
                            => Len(routes[i].path) <= Len(found[1].path)

\* The routes `/`, `/api`, `/api/v2` have been installed as `/api/v2`, `/api`,
\* `/`, and `/apix` has matched `/`, not `/api`.
C19_Witness ==
    /\ ret # <<>>
    /\ Len(arg) = 3
    /\ arg[1].path = Slash /\ arg[2].path = PathApi /\ arg[3].path = PathApiV2
    /\ ret[1].dr.routes[1].path = PathApiV2
    /\ ret[1].dr.routes[2].path = PathApi
    /\ ret[1].dr.routes[3].path = Slash
    /\ ret[1].path = PathApix
    /\ ret[1].route # <<>>
    /\ ret[1].route[1].path = Slash

-----------------------------------------------------------------------------
(* Specification SpecBuild: buildRouters on configurations of up to        *)
(* MaxProjects projects, well-formed and not, the map iteration visiting   *)
(* them in any order.                                                      *)

UpBadPort == <<"h","t","t","p",":","/","/","b","e",":","x">>
UpUpperHttps == <<"H","T","T","P","S",":","/","/","b","e">>

\* The projects of the configurations, as the pointers the map holds.
BuildProjectPool ==
    { <<>>,
      <<ProjWeb>>,
      <<ProjApi>>,
      <<Project(<<DomainA, DomainB>>, <<Route(PathApiV2, UpWs, <<>>, FALSE),
                                        Route(Slash, UpUpperHttps, <<>>, FALSE)>>)>>,
      <<ProjNoRoutes>>,
      <<ProjNoDomains>>,
      <<ProjForeign>>,
      <<Project(<<Localhost>>, <<Route(Slash, UpFront, <<>>, FALSE)>>)>>,
      <<Project(<<DomainC>>, <<Route(PathNoSlash, UpBack, <<>>, FALSE)>>)>>,
      <<Project(<<DomainC>>, <<Route(Slash, UpFront, <<>>, FALSE),
                               Route(PathApi, UpFtp, <<>>, FALSE)>>)>>,
      <<Project(<<DomainC>>, <<Route(PathApi, UpBadPort, <<>>, FALSE)>>)>>,
      <<Project(<<DomainC>>, <<Route(PathApi, PathApi, <<>>, FALSE)>>)>> }

\* How many projects a configuration has at most.
MaxProjects == 2

ProjectNames == <<"web", "api", "bad", "old">>

\* The configurations buildRouters is called with.
BuildConfigs ==
    UNION { [{ProjectNames[i] : i \in 1..n} -> BuildProjectPool] : n \in 0..MaxProjects }

\* The orders in which a map iteration visits the keys of names.
Orders(names) ==
    { o \in [1..Cardinality(names) -> names] :
        \A i, j \in 1..Cardinality(names) : i # j => o[i] # o[j] }

InitBuild ==
    /\ RunIdle
    /\ RoutingIdle
    /\ CookiesIdle
    /\ CertsIdle
    /\ GatewayIdle
    /\ arg \in BuildConfigs
    /\ ret = <<>>

\* routers, err := buildRouters(cfg).
CallBuild ==
    /\ ret = <<>>
    /\ \E order \in Orders(DOMAIN arg) : ret' = <<buildRouters(arg, order)>>
    /\ UNCHANGED <<arg, routingVars, cookieVars, certVars, gatewayVars, runVars>>

NextBuild == CallBuild

SpecBuild == InitBuild /\ [][NextBuild]_vars

-----------------------------------------------------------------------------
(* Claims about buildRouters.                                              *)

\* The route definition r is acceptable: its path starts with `/` and its
\* upstream parses, with one of the four schemes.
RouteAcceptable(r) ==
    /\ HasPrefix(r.path, Slash)
    /\ urlParse(r.upstream).ok
    /\ urlParse(r.upstream).scheme \in {SchemeHttp, SchemeHttps, SchemeWs, SchemeWss}

\* The project behind the pointer p is acceptable.
ProjectAcceptable(p) ==
    /\ p # <<>>
    /\ Len(p[1].domains) >= 1
    /\ Len(p[1].routes) >= 1
    /\ \A i \in 1..Len(p[1].routes) : RouteAcceptable(p[1].routes[i])
    /\ \A i \in 1..Len(p[1].domains) :
          HasSuffix(ToLower(hostOnly(p[1].domains[i])), DotLocalhost)

\* The normalised domains of all projects of the configuration c.
NormalizedDomains(c) ==
    UNION { { ToLower(hostOnly(c[n][1].domains[i])) : i \in 1..Len(c[n][1].domains) } :
              n \in DOMAIN c }

\* C16: Build succeeds iff every project is acceptable; on success the keys of
\* the table are exactly the normalised domains of all projects; otherwise
\* Build returns an error and no table.
C16_BuildSucceedsIffWellFormed ==
    ret # <<>> =>
        IF \A n \in DOMAIN arg : ProjectAcceptable(arg[n])
        THEN /\ ret[1].ok
             /\ DOMAIN ret[1].val[1] = NormalizedDomains(arg)
        ELSE /\ ~ret[1].ok
             /\ ret[1].val = <<>>
             /\ ret[1] # Panic

-----------------------------------------------------------------------------
(* Specification SpecBuildTwice: buildRouters called twice on the same     *)
(* configuration, the map iteration of each call visiting the projects in  *)
(* an order of its own.                                                    *)

InitBuildTwice ==
    /\ RunIdle
    /\ RoutingIdle
    /\ CookiesIdle
    /\ CertsIdle
    /\ GatewayIdle
    /\ \E c \in BuildConfigs :
          \E o1 \in Orders(DOMAIN c), o2 \in Orders(DOMAIN c) :
              arg = [projects |-> c, first |-> o1, second |-> o2]
    /\ ret = <<>>

\* buildRouters(cfg), and buildRouters(cfg) once more.
CallBuildTwice ==
    /\ ret = <<>>
    /\ ret' = << buildRouters(arg.projects, arg.first),
                 buildRouters(arg.projects, arg.second) >>
    /\ UNCHANGED <<arg, routingVars, cookieVars, certVars, gatewayVars, runVars>>

NextBuildTwice == CallBuildTwice

SpecBuildTwice == InitBuildTwice /\ [][NextBuildTwice]_vars

\* The normalised domains the project behind the pointer p declares.
DeclaredDomains(p) ==
    { ToLower(hostOnly(p[1].domains[i])) : i \in 1..Len(p[1].domains) }

\* Two projects of the configuration c declare the same normalised domain.
SharedDomain(c) ==
    \E m, n \in DOMAIN c :
        m # n /\ DeclaredDomains(c[m]) \cap DeclaredDomains(c[n]) # {}

\* The project, of those declaring the domain d, that order visits last.
LastDeclaring(c, order, d) ==
    LET k == CHOOSE i \in 1..Len(order) :
                /\ d \in DeclaredDomains(c[order[i]])
                /\ \A j \in (i + 1)..Len(order) : d \notin DeclaredDomains(c[order[j]])
    IN  order[k]

\* Every domain of the table maps to the router of the project that order
\* visits last among those declaring it.
LastWins(c, order, table) ==
    \A d \in DOMAIN table :
        table[d] = newDomainRouter(c[LastDeclaring(c, order, d)][1]).val[1]

\* C21: of a configuration whose projects are all acceptable, both builds
\* succeed, whether projects share a domain or not; each table maps every
\* domain to the router of the project its iteration visited last among those
\* declaring the domain; and when no two projects share a normalised domain
\* the two tables are the same.  Of any other configuration neither build
\* yields a table.
C21_DeterministicUnlessShared ==
    ret # <<>> =>
        IF \A n \in DOMAIN arg.projects : ProjectAcceptable(arg.projects[n])
        THEN /\ ret[1].ok /\ ret[2].ok
             /\ LastWins(arg.projects, arg.first, ret[1].val[1])
             /\ LastWins(arg.projects, arg.second, ret[2].val[1])
             /\ ~SharedDomain(arg.projects) => ret[1] = ret[2]
        ELSE ~ret[1].ok /\ ~ret[2].ok

\* Two projects declare a.localhost, and the two builds, visiting them in
\* opposite orders, installed different routers for it.
C21_Witness ==
    /\ ret # <<>>
    /\ \A n \in DOMAIN arg.projects : ProjectAcceptable(arg.projects[n])
    /\ SharedDomain(arg.projects)
    /\ arg.first # arg.second
    /\ ret[1].ok /\ ret[2].ok
    /\ ret[1].val[1][DomainA] # ret[2].val[1][DomainA]

-----------------------------------------------------------------------------
(* Specification SpecHandle: handleHTTPS on any request, with any of a few *)
(* routing tables active.                                                  *)

HeaderUpperA == <<"A",".","L","o","c","a","l","h","o","s","t",":","8","4","4","3">>
HeaderB == <<"b",".","l","o","c","a","l","h","o","s","t",":","4","4","3">>
HeaderPortOnly == <<":","8","4","4","3">>

\* The Host headers of the requests.
HostHeaders ==
    { DomainA, HeaderUpperA, HeaderB, DomainB, DomainC, DomainForeign, HeaderPortOnly, <<>> }

\* The active routing tables.
ActiveTables ==
    UNION { { buildRouters(c, o).val[1] : o \in Orders(DOMAIN c) } :
              c \in { NoProjects,
                      "web" :> <<ProjWeb>>,
                      "web" :> <<ProjWebMoved>> @@ "api" :> <<ProjApi>> } }

HandlePaths == { Slash, PathApiHealth, PathAbout }

InitHandle ==
    /\ RunIdle
    /\ RoutingIdle
    /\ CookiesIdle
    /\ CertsIdle
    /\ GatewayIdle
    /\ \E t \in ActiveTables, h \in HostHeaders, path \in HandlePaths,
          accept \in {TextHtml, AcceptJson} :
          arg = [routers |-> t, request |-> Request(h, path, accept)]
    /\ ret = <<>>

\* s.handleHTTPS(w, r).
HandleHTTPS ==
    /\ ret = <<>>
    /\ ret' = <<handleHTTPS(arg.routers, arg.request)>>
    /\ UNCHANGED <<arg, routingVars, cookieVars, certVars, gatewayVars, runVars>>

NextHandle == HandleHTTPS

SpecHandle == InitHandle /\ [][NextHandle]_vars

-----------------------------------------------------------------------------
(* Claims about handleHTTPS.                                               *)

\* The Host header of the request, port stripped and lower-cased.
RequestKey == ToLower(hostOnly(arg.request.host))

\* The answer is the gateway's own, with this status and body, and nothing
\* was sent to an upstream.
AnsweredWith(status, body) ==
    /\ ret[1].status = status
    /\ ret[1].body = body
    /\ ret[1].out = <<>>

\* C15 as claimed: a request whose Host, port stripped and lower-cased, is not
\* a key of the active table is answered 502 "unknown domain" and not
\* forwarded; one whose Host is a key is dispatched to that domain's router.
C15_UnknownDomainIs502 ==
    ret # <<>> =>
        IF RequestKey \notin DOMAIN arg.routers
        THEN AnsweredWith(502, "unknown domain")
        ELSE ret[1] = ServeHTTP(arg.routers[RequestKey], arg.request)

\* C15 as amended: a request whose Host, port stripped and lower-cased, is
\* empty is answered 400 "missing host"; one whose Host is otherwise not a key
\* of the active table is answered 502 "unknown domain"; neither is
\* forwarded; one whose Host is a key is dispatched to that domain's router.
C15_UnknownDomainIs502OrMissingHost ==
    ret # <<>> =>
        IF RequestKey = <<>>
        THEN AnsweredWith(400, "missing host")
        ELSE IF RequestKey \notin DOMAIN arg.routers
        THEN AnsweredWith(502, "unknown domain")
        ELSE ret[1] = ServeHTTP(arg.routers[RequestKey], arg.request)

\* A request with Host `A.Localhost:8443` has been forwarded by the router of
\* `a.localhost`.
C15_Witness ==
    /\ ret # <<>>
    /\ arg.request.host = HeaderUpperA
    /\ DomainA \in DOMAIN arg.routers
    /\ ret[1].out # <<>>
    /\ ret[1].via[1] \in Range(arg.routers[DomainA].routes)

-----------------------------------------------------------------------------
(* Specification SpecRun: one run of the serve command, from server.New to *)
(* the return of Server.Run: startup, the two listeners, the watch loop,   *)
(* cancellation and shutdown.  The state directory and the config file are *)
(* those of the sections above; no request is served.                      *)

ListenerNames == {"http", "https"}

\* The state directories the gateway starts in: an empty one, and one whose
\* CA key an earlier run left unreadable.
RunStateDirs ==
    { [n \in FileNames |-> Missing],
      [[n \in FileNames |-> Missing] EXCEPT
          !.caCert = CertFile(0, 0, CAValidityDays), !.caKey = Garbage] }

InitRun ==
    /\ RoutingIdle
    /\ CookiesIdle
    /\ PureIdle
    /\ files \in RunStateDirs
    /\ now = 0
    /\ nextKey = 1
    /\ ticks = 0
    /\ certPc = "idle"
    /\ lastRun = "none"
    /\ configFile \in ConfigFiles
    /\ events = <<>>
    /\ routers = EmptyTable
    /\ mu = [writer |-> FALSE, readers |-> {}]
    /\ reloadPc = "new"
    /\ cfg = NoProjects
    /\ pending = {}
    /\ building = EmptyTable
    /\ started = FALSE
    /\ edits = 0
    /\ lookups = [p \in Lookups |-> IdleLookup]
    /\ tableBefore = EmptyTable
    /\ lastBuilt = EmptyTable
    /\ inFlight = 0
    /\ watching = FALSE
    /\ runPc = "serve"
    /\ ctxDone = FALSE
    /\ listeners = [l \in ListenerNames |-> "off"]
    /\ errCh = <<>>

\* The process runs: the serve command has not returned and no goroutine
\* has panicked.
Alive == runPc \notin {"aborted", "exit"} /\ reloadPc # "crashed"

\* newServeCommand, lines 57-62: a config file that does not exist is
\* created, with no project; then New is entered.
ServeCommand ==
    /\ runPc = "serve"
    /\ configFile' = IF configFile.kind = "missing" THEN Yaml(NoProjects) ELSE configFile
    /\ runPc' = "ensureCert"
    /\ UNCHANGED <<events, routers, mu, reloadPc, cfg, pending, building, started,
                   edits, lookups, tableBefore, lastBuilt, inFlight, watching>>
    /\ UNCHANGED <<ctxDone, listeners, errCh>>
    /\ UNCHANGED <<routingVars, cookieVars, certVars, pureVars>>

\* New, line 63: mgr.EnsureCertificate(), step by step.
NewEnsureCA == runPc = "ensureCert" /\ lastRun = "none" /\ EnsureCAStep

NewEnsureServerCert == runPc = "ensureCert" /\ EnsureServerCertStep

NewLoadKeyPair == runPc = "ensureCert" /\ LoadKeyPairStep

\* New, lines 64-67: EnsureCertificate failed; New returns the error and the
\* serve command returns it (cli.go, lines 70-72).
NewCertFailed ==
    /\ runPc = "ensureCert"
    /\ lastRun = "error"
    /\ runPc' = "aborted"
    /\ UNCHANGED <<ctxDone, listeners, errCh>>
    /\ UNCHANGED <<routingVars, cookieVars, certVars, gatewayVars, pureVars>>

\* A startup that goes on to the first reload whatever EnsureCertificate
\* returned.
NewReloadIgnoringCertError ==
    /\ runPc = "ensureCert"
    /\ lastRun \in {"ok", "error"}
    /\ runPc' = "reload"
    /\ reloadPc' = "load"
    /\ inFlight' = 1
    /\ UNCHANGED <<configFile, events, routers, mu, cfg, pending, building, started,
                   edits, lookups, tableBefore, lastBuilt, watching>>
    /\ UNCHANGED <<ctxDone, listeners, errCh>>
    /\ UNCHANGED <<routingVars, cookieVars, certVars, pureVars>>

\* New, lines 69-79: EnsureCertificate succeeded; the Server is made and
\* s.reload() is called.
NewReload ==
    /\ runPc = "ensureCert"
    /\ lastRun = "ok"
    /\ runPc' = "reload"
    /\ reloadPc' = "load"
    /\ inFlight' = 1
    /\ UNCHANGED <<configFile, events, routers, mu, cfg, pending, building, started,
                   edits, lookups, tableBefore, lastBuilt, watching>>
    /\ UNCHANGED <<ctxDone, listeners, errCh>>
    /\ UNCHANGED <<routingVars, cookieVars, certVars, pureVars>>

\* The steps of reload, in New and in watchLoop.
RunReloadLoad == Alive /\ ReloadLoad

RunReloadBuildProject == Alive /\ ReloadBuildProject

RunReloadLock == Alive /\ ReloadLock

RunReloadStore == Alive /\ ReloadStore

RunReloadError == Alive /\ ReloadError

\* New, lines 79-82: the first reload failed; New returns the error.
NewReloadFailed ==
    /\ runPc = "reload"
    /\ reloadPc = "exited"
    /\ runPc' = "aborted"
    /\ UNCHANGED <<ctxDone, listeners, errCh>>
    /\ UNCHANGED <<routingVars, cookieVars, certVars, gatewayVars, pureVars>>

\* New, lines 84-88: watcher.Add(opts.ConfigPath); its error is logged and
\* New returns the Server.  Add fails on a file that is gone, and may fail on
\* any file (the limit of inotify watches).
NewWatchAdd ==
    /\ runPc = "reload"
    /\ started
    /\ reloadPc = "idle"
    /\ watching' \in (IF configFile.kind = "missing" THEN {FALSE} ELSE BOOLEAN)
    /\ runPc' = "run"
    /\ UNCHANGED <<configFile, events, routers, mu, reloadPc, cfg, pending, building,
                   started, edits, lookups, tableBefore, lastBuilt, inFlight>>
    /\ UNCHANGED <<ctxDone, listeners, errCh>>
    /\ UNCHANGED <<routingVars, cookieVars, certVars, pureVars>>

\* Run, lines 93-126: the two servers are made and the three goroutines are
\* started; Run waits in its select.
RunStart ==
    /\ runPc = "run"
    /\ listeners' = [l \in ListenerNames |-> "listening"]
    /\ runPc' = "select"
    /\ UNCHANGED <<ctxDone, errCh>>
    /\ UNCHANGED <<routingVars, cookieVars, certVars, gatewayVars, pureVars>>

\* cli.go, lines 79-82: SIGINT or SIGTERM arrives and cancel() is called.
Cancel ==
    /\ Alive
    /\ runPc \in {"run", "select"}
    /\ ~ctxDone
    /\ ctxDone' = TRUE
    /\ UNCHANGED <<runPc, listeners, errCh>>
    /\ UNCHANGED <<routingVars, cookieVars, certVars, gatewayVars, pureVars>>

\* Run, lines 112-124: ListenAndServe or ListenAndServeTLS of the listener l
\* returns an error that is not http.ErrServerClosed; it is sent on errCh,
\* whose buffer holds both errors.
ListenerFail(l) ==
    /\ Alive
    /\ listeners[l] = "listening"
    /\ listeners' = [listeners EXCEPT ![l] = "failed"]
    /\ errCh' = Append(errCh, l)
    /\ UNCHANGED <<runPc, ctxDone>>
    /\ UNCHANGED <<routingVars, cookieVars, certVars, gatewayVars, pureVars>>

\* Run, lines 128-129: the select receives from ctx.Done().
RunSelectDone ==
    /\ Alive
    /\ runPc = "select"
    /\ ctxDone
    /\ runPc' = "shutdownHttp"
    /\ UNCHANGED <<ctxDone, listeners, errCh>>
    /\ UNCHANGED <<routingVars, cookieVars, certVars, gatewayVars, pureVars>>

\* Run, lines 130-133: the select receives an error from errCh, and Run
\* returns it.
RunSelectErr ==
    /\ Alive
    /\ runPc = "select"
    /\ errCh # <<>>
    /\ errCh' = Tail(errCh)
    /\ runPc' = "returned"
    /\ UNCHANGED <<ctxDone, listeners>>
    /\ UNCHANGED <<routingVars, cookieVars, certVars, gatewayVars, pureVars>>

\* What Shutdown makes of a listener: one that listens is closed, and its
\* ListenAndServe returns http.ErrServerClosed, which is not sent on errCh.
Shutdown(state) == IF state = "listening" THEN "shutdown" ELSE state

\* Run, lines 136-138: httpServer.Shutdown(shutdownCtx) returns, at the
\* latest when the five seconds of shutdownCtx are over.
RunShutdownHttp ==
    /\ Alive
    /\ runPc = "shutdownHttp"
    /\ listeners' = [listeners EXCEPT !.http = Shutdown(@)]
    /\ runPc' = "shutdownHttps"
    /\ UNCHANGED <<ctxDone, errCh>>
    /\ UNCHANGED <<routingVars, cookieVars, certVars, gatewayVars, pureVars>>

\* Run, lines 139-141: httpsServer.Shutdown(shutdownCtx) returns, and Run
\* returns nil.
RunShutdownHttps ==
    /\ Alive
    /\ runPc = "shutdownHttps"
    /\ listeners' = [listeners EXCEPT !.https = Shutdown(@)]
    /\ runPc' = "returned"
    /\ UNCHANGED <<ctxDone, errCh>>
    /\ UNCHANGED <<routingVars, cookieVars, certVars, gatewayVars, pureVars>>

\* cli.go, line 85, and main: Run has returned, the serve command returns
\* and the process exits, with every goroutine it still runs.
ServeReturn ==
    /\ Alive
    /\ runPc = "returned"
    /\ runPc' = "exit"
    /\ UNCHANGED <<ctxDone, listeners, errCh>>
    /\ UNCHANGED <<routingVars, cookieVars, certVars, gatewayVars, pureVars>>

\* The goroutine of watchLoop has been started and the process runs.
WatchRunning ==
    /\ runPc \in {"select", "shutdownHttp", "shutdownHttps", "returned"}
    /\ reloadPc # "crashed"

\* watchLoop, lines 150-158: the select receives an event.
RunWatchEvent == WatchRunning /\ WatchEvent

\* watchLoop, lines 147-149 and 145: the select receives from ctx.Done();
\* the loop returns and the watcher is closed.
WatchDone ==
    /\ WatchRunning
    /\ reloadPc = "idle"
    /\ ctxDone
    /\ reloadPc' = "stopped"
    /\ UNCHANGED <<configFile, events, routers, mu, cfg, pending, building, started,
                   edits, lookups, tableBefore, lastBuilt, inFlight, watching>>
    /\ UNCHANGED <<routingVars, cookieVars, certVars, pureVars, runVars>>

\* The config file is changed from outside while the process runs.
RunEditConfig == Alive /\ EditConfig

NextRun ==
    \/ ServeCommand
    \/ NewEnsureCA
    \/ NewEnsureServerCert
    \/ NewLoadKeyPair
    \/ NewCertFailed
    \/ NewReload
    \/ RunReloadLoad
    \/ RunReloadBuildProject
    \/ RunReloadLock
    \/ RunReloadStore
    \/ RunReloadError
    \/ NewReloadFailed
    \/ NewWatchAdd
    \/ RunStart
    \/ Cancel
    \/ \E l \in ListenerNames : ListenerFail(l)
    \/ RunSelectDone
    \/ RunSelectErr
    \/ RunShutdownHttp
    \/ RunShutdownHttps
    \/ ServeReturn
    \/ RunWatchEvent
    \/ WatchDone
    \/ RunEditConfig

SpecRun == InitRun /\ [][NextRun]_vars

\* The steps of the goroutine of the serve command: New, then Run.
MainFlow ==
    \/ ServeCommand
    \/ NewEnsureCA
    \/ NewEnsureServerCert
    \/ NewLoadKeyPair
    \/ NewCertFailed
    \/ NewReload
    \/ NewReloadFailed
    \/ NewWatchAdd
    \/ RunStart
    \/ RunSelectDone
    \/ RunSelectErr
    \/ RunShutdownHttp
    \/ RunShutdownHttps
    \/ ServeReturn

\* The steps of reload but the iterations of buildRouters, and those of the
\* goroutine of watchLoop around it.
WatchFlow ==
    \/ RunReloadLoad
    \/ RunReloadLock
    \/ RunReloadStore
    \/ RunReloadError
    \/ RunWatchEvent
    \/ WatchDone

\* SpecRun with goroutines that are scheduled: one that can take a step
\* takes one.  Signals, failures of listeners and edits of the config file
\* come when they come.
\* RunReloadBuildProject can take a step: buildRouters has a project to visit.
BuildProjectEnabled == Alive /\ reloadPc = "build" /\ pending # {}

\* WF_vars(RunReloadBuildProject), with the condition under which the
\* action is enabled written out.
FairBuildProject ==
    []<>(~BuildProjectEnabled) \/ []<><<RunReloadBuildProject>>_vars

SpecRunFair ==
    SpecRun /\ WF_vars(MainFlow) /\ WF_vars(WatchFlow) /\ FairBuildProject

-----------------------------------------------------------------------------
(* Lifecycle claims.                                                       *)

\* The states of the gateway (spec, section 4.6).  Run waits in its select
\* while the gateway serves; it has returned when the gateway is stopped.
Serving == runPc = "select"

ShuttingDown == runPc \in {"shutdownHttp", "shutdownHttps"}

Stopped == runPc \in {"returned", "exit"}

NoListenerStarted == \A l \in ListenerNames : listeners[l] = "off"

\* C13: the gateway serves, and a listener is started, only after
\* EnsureCertificate succeeded and the first reload installed its table; once
\* either has failed, startup goes no further than returning the error and no
\* listener is started; and a gateway whose watch was not registered serves
\* all the same, receives no event and calls reload no more, so that the
\* table stays the one its first reload installed.
C13_ServingOnlyAfterStartup ==
    /\ (Serving \/ ~NoListenerStarted)
          => lastRun = "ok" /\ LoadX509KeyPairOk(files) /\ started
    /\ lastRun = "error" => runPc \in {"ensureCert", "aborted"} /\ NoListenerStarted
    /\ (~started /\ reloadPc \in {"exited", "crashed"})
          => runPc \in {"reload", "aborted"} /\ NoListenerStarted
    /\ runPc = "aborted" => NoListenerStarted /\ (lastRun = "error" \/ reloadPc = "exited")
    /\ (~watching /\ runPc \notin {"serve", "ensureCert", "reload", "aborted"})
          => /\ events = <<>>
             /\ reloadPc \in {"idle", "stopped"}
             /\ inFlight = 0
             /\ routers = lastBuilt

\* The watch was not registered, the config file has been changed since, and
\* the gateway serves the table of its first reload.
C13_Witness ==
    /\ Serving
    /\ ~watching
    /\ edits > 0
    /\ routers = lastBuilt
    /\ routers # EmptyTable

\* C11: when a listener has failed and Run has returned, the other listener
\* has been shut down and the watch loop has returned.
C11_ListenerFailureShutsDown ==
    (Stopped /\ \E l \in ListenerNames : listeners[l] = "failed")
        => /\ \A l \in ListenerNames : listeners[l] # "listening"
           /\ reloadPc = "stopped"

\* The watch loop runs no more: it has returned, or the process has exited
\* or died.
WatchStopped == reloadPc \in {"stopped", "crashed"} \/ runPc = "exit"

\* C12: once the context is cancelled no call of reload begins; Run returns
\* only with both listeners shut down; Run returns and the watch loop stops,
\* eventually; and a gateway that has stopped stays stopped.
C12_CancellationStops ==
    /\ [][ctxDone => ~(reloadPc # "load" /\ reloadPc' = "load")]_vars
    /\ [](ctxDone /\ Stopped => \A l \in ListenerNames : listeners[l] # "listening")
    /\ ctxDone ~> (Stopped /\ WatchStopped)
    /\ [][Stopped => Stopped']_vars

\* The event kinds watchLoop reloads on.
ReloadKinds == {"Write", "Create"}

\* The configurations the config file holds, read by config.Load.
LoadedConfigs ==
    { Load(f).val[1] : f \in { g \in ConfigFiles \cup {Yaml(NoProjects)} : Load(g).ok } }

\* The tables buildRouters makes of the configuration c, one per order of
\* the map iteration in which it succeeds.
TablesOf(c) ==
    { buildRouters(c, o).val[1] : o \in { q \in Orders(DOMAIN c) : buildRouters(c, q).ok } }

\* The configurations that build successfully, in whatever order.
BuildableConfigs ==
    { c \in LoadedConfigs : \A o \in Orders(DOMAIN c) : buildRouters(c, o).ok }

\* The tables of each of them.
BuiltTables == [c \in BuildableConfigs |-> TablesOf(c)]

\* C14: while the gateway serves with its watch registered, a create or write
\* event at the head of the queue is eventually received by a watch loop that
\* calls reload; a reload that has read a configuration that builds
\* eventually makes a table built from that configuration the active table;
\* an event of another kind begins no reload, and the active table changes in
\* the swap of a reload only.
C14_EventsReload ==
    /\ (Serving /\ watching /\ reloadPc = "idle" /\ events # <<>>
          /\ Head(events) \in ReloadKinds)
          ~> (reloadPc = "load" \/ ~Serving)
    /\ \A c \in BuildableConfigs :
          (Serving /\ watching /\ reloadPc = "build" /\ cfg = c)
              ~> (routers \in BuiltTables[c] \/ ~Serving)
    /\ [][(reloadPc = "idle" /\ events # <<>> /\ events' = Tail(events)
             /\ Head(events) \notin ReloadKinds)
            => (reloadPc' = "idle" /\ routers' = routers)]_vars
    /\ [][routers' # routers => reloadPc = "store" /\ routers' = building]_vars

\* The file was created with two projects after the gateway had started with
\* another content, and the table built from it is the active one.
C14_Witness ==
    /\ Serving
    /\ watching
    /\ edits = 1
    /\ events = <<>>
    /\ configFile = Yaml("web" :> <<ProjWebMoved>> @@ "api" :> <<ProjApi>>)
    /\ routers \in BuiltTables[configFile.projects]

\* C20: at most one call of reload has not returned; the table that was
\* active when a reload read the configuration is still the active one when
\* that reload swaps; and with no reload running, the active table is the
\* one the last successful reload built.
C20_ReloadsSerialized ==
    /\ inFlight <= 1
    /\ reloadPc \in {"build", "store"} => routers = tableBefore /\ inFlight = 1
    /\ (started /\ inFlight = 0) => routers = lastBuilt

\* A reload is building while the event of a later change is queued.
C20_Witness ==
    /\ started
    /\ reloadPc = "build"
    /\ inFlight = 1
    /\ events # <<>>
    /\ Head(events) \in ReloadKinds

-----------------------------------------------------------------------------
(* Specification SpecServe: one request goroutine running handleHTTPS to   *)
(* its end (the lookup, then the router's ServeHTTP outside the lock)      *)
(* beside the reloads of watchLoop.                                        *)

\* The request goroutine.
Handlers == {1}

\* The Host headers of its requests, port stripped and lower-cased.
ServeHosts == {HostA, HostB, DomainC}

ServePaths == {PathApiHealth, PathAbout}

ServeAccepts == {TextHtml, AcceptJson}

\* A ServeHTTP that forgets the router's fallback once it has served.
RouterAfterServeHTTPDroppingFallback(d, r) == [d EXCEPT !.fallback = <<>>]

\* The router as domainRouter.ServeHTTP leaves it.  Its assignments (lines
\* 275-277) are to r.Header and r.URL; dr, dr.routes and dr.fallback are only
\* read, by it, by match and by runtimeRoute.serveHTTP.
RouterAfterServeHTTP(d, r) == d

\* The table after a handler left the router d as after: the table holds
\* pointers, so every entry that is d shows what the handler did to it.
WriteBack(table, d, after) ==
    [h \in DOMAIN table |-> IF table[h] = d THEN after ELSE table[h]]

\* proxy.ErrorHandler on a forwarded request whose upstream does not answer.
ErrorHandler(answer) ==
    [answer EXCEPT !.status = StatusBadGateway, !.body = "upstream error"]

\* handleHTTPS, lines 181-186, with the router lookupRouter returned: the
\* answer to the request, the upstream reachable or not.
ServeRequest(p) ==
    /\ lookups[p].pc = "returned"
    /\ reloadPc # "crashed"
    /\ \E path \in ServePaths, accept \in ServeAccepts, up \in BOOLEAN :
          LET router == lookups[p].result
              r == Request(lookups[p].host, path, accept)
              answer == Dispatch(router, r)
              after == IF router = <<>> THEN <<>>
                       ELSE <<RouterAfterServeHTTP(router[1], r)>>
          IN  /\ req' = <<r>>
              /\ resp' = << IF answer.out # <<>> /\ ~up THEN ErrorHandler(answer)
                            ELSE answer >>
              /\ dr' = after
              /\ routers' = IF router = <<>> THEN routers
                            ELSE WriteBack(routers, router[1], after[1])
    /\ lookups' = [lookups EXCEPT ![p] = IdleLookup]
    /\ UNCHANGED <<configFile, events, mu, reloadPc, cfg, pending, building,
                   started, edits, tableBefore, lastBuilt, inFlight, watching>>
    /\ UNCHANGED <<project, cookieVars, certVars, pureVars, runVars>>

InitServe == InitGateway

NextServe ==
    \/ ReloadLoad
    \/ ReloadBuildProject
    \/ ReloadLock
    \/ ReloadStore
    \/ ReloadError
    \/ WatchEvent
    \/ EditConfig
    \/ \E p \in Handlers :
          \/ LookupCallOn(p, ServeHosts)
          \/ LookupRLock(p)
          \/ LookupRead(p)
          \/ ServeRequest(p)

SpecServe == InitServe /\ [][NextServe]_vars

\* The step is the handler p answering its request.
Answers(p) == lookups[p].pc = "returned" /\ lookups'[p].pc = "idle"

\* C22: a published router is never mutated.  A handler answering a request,
\* however it answers, leaves the active table as it was and the router it
\* served with (routes and fallback) as lookupRouter returned it; the active
\* table changes only in the last step of a reload whose load and build
\* succeeded, and becomes the table that reload built from nothing for the
\* configuration it loaded.
C22_RoutersNeverMutated ==
    [][ /\ \A p \in Handlers :
              Answers(p) => routers' = routers /\ dr' = lookups[p].result
        /\ routers' # routers =>
              /\ reloadPc = "store"
              /\ reloadPc' = "idle"
              /\ routers' = building
              /\ cfg \in BuildableConfigs
              /\ routers' \in BuiltTables[cfg] ]_vars

\* A request was forwarded by a router of a table that a reload has replaced
\* since: the active table now holds a different router for the host, and
\* the router that served is as it was built.
C22_Witness ==
    /\ resp # <<>>
    /\ resp[1].out # <<>>
    /\ dr # <<>>
    /\ dr[1].fallback # <<>>
    /\ Get(routers, req[1].host) # <<>>
    /\ Get(routers, req[1].host) # dr
    /\ dr = newDomainRouter(ProjWeb).val

=============================================================================
